---- MODULE Spec2Model ----
(***************************************************************************)
(* Theme_Editor: colour normalisation (modules/color_picker.py,            *)
(* modules/theme_data.py) and the QSS palette codec                        *)
(* (modules/theme_data.py, modules/qss_theme_editor.py).                   *)
(*                                                                         *)
(* A Python str is modelled as a sequence of one-character strings, so     *)
(* that strip(), upper(), the regular expressions and the f-string         *)
(* formatting are computed character by character.                         *)
(***************************************************************************)
EXTENDS Integers, Sequences, FiniteSets, TLC

VARIABLES
    color,      \* ColorPickerButton.color
    arg,        \* the text handed to the operation (clipboard / dialog / argument)
    ret,        \* the value the normaliser returned for arg (NoValue before a call)
    op,         \* the operation that ran last on the button ("init" after __init__)
    warned,     \* TRUE when the operation showed the "Invalid Color" warning box
    emitted,    \* TRUE when the operation emitted colorChanged
    text_color, \* the text colour _update_display put in the button's style sheet
    current_palette,    \* QSSThemeEditor.current_palette
    code,               \* the text of QSSThemeEditor.code_editor
    generatedFrom,      \* history: the palette the text in code was generated from
    qop,                \* the editor operation that ran last ("init" before any)
    file,               \* the text of the .qss file the user opens
    qss_editor,         \* the text in the editor of the standalone tool
    color_scheme,       \* ThemeEditorWindow.color_scheme
    current_style,      \* the style text of the widget selected in QtWidgetThemeEditor
    properties,         \* the property dict the editor parsed or built last
    wop,                \* the operation of the widget editor that ran last
    edit,               \* what the property editor asked for in that operation
    themes,             \* JSONTerminalEditor.themes: theme name -> TerminalTheme
    current_theme_name, \* JSONTerminalEditor.current_theme_name ("" for None)
    unsaved_changes,    \* JSONTerminalEditor.unsaved_changes
    color_pickers,      \* the colour of each picker of JSONTerminalEditor.color_pickers
    selector_items,     \* the items of JSONTerminalEditor.theme_selector
    selector_index,     \* the position of its current item (0 for none)
    themes_json,        \* the content of config/themes/themes.json
    persisted,          \* history: the themes _load_themes left in the editor, then
                        \* the themes of the last successful save
    validation,         \* what the last operation returned when it was validate()
    qt_themes,          \* QtWidgetThemeEditor.themes: theme name -> its QtWidgetTheme,
                        \* an object identified by the reference of its styles dict
    styles_of,          \* the styles dicts: reference -> (selector -> style text)
    qt_current_theme_name,  \* QtWidgetThemeEditor.current_theme_name ("" for None)
    widget_current,     \* the text of widget_list.currentItem() ("" for none)
    qt_unsaved_changes, \* QtWidgetThemeEditor.unsaved_changes
    current_file_path,  \* QtWidgetThemeEditor.current_file_path ("" for None)
    disk,               \* the theme files: path -> content
    qt_op,              \* the operation of the editor that ran last, with its outcome
    dialog_shown,       \* TRUE when that operation showed a file dialog
    wrote,              \* the path that operation opened for writing ("" for none)
    tracked,            \* history: the path loaded or chosen in a save dialog last
    duplicate_of,       \* history: duplicated theme name -> the name it was copied from
    terminal_themes,    \* ConverterUI.terminal_themes: theme name -> TerminalTheme
    source_theme_name,  \* the text of ConverterUI.source_theme_combo ("" for none)
    output_preview,     \* the text of ConverterUI.output_preview
    conv_op,            \* the operation of the converter that ran last, with its outcome
    files,              \* the theme files ThemeManager saves: path -> content and mtime
    backups,            \* the files of ThemeManager.backup_dir: timestamp of the name ->
                        \* content, mtime and (history) the save that created it
    now,                \* the number of save calls so far, the clock of the mtimes
    second,             \* the wall-clock second datetime.now() shows
    bop,                \* the outcome of the last save call ("init" before any)
    target,             \* the path that call was to write ("" before any)
    before,             \* history: what the target held when that call began
    made                \* history: the saves whose backup was created and not overwritten

colorVars == <<color, arg, ret, op, warned, emitted, text_color>>

qssVars == <<current_palette, code, generatedFrom, qop, file, qss_editor, color_scheme>>

widgetVars == <<current_style, properties, wop, edit>>

termVars ==
    <<themes, current_theme_name, unsaved_changes, color_pickers, selector_items,
      selector_index, themes_json, persisted, validation>>

themeVars ==
    <<qt_themes, styles_of, qt_current_theme_name, widget_current, qt_unsaved_changes,
      current_file_path, disk, qt_op, dialog_shown, wrote, tracked, duplicate_of>>

convVars == <<terminal_themes, source_theme_name, output_preview, conv_op>>

backupVars == <<files, backups, now, second, bop, target, before, made>>

moreVars == <<termVars, themeVars, convVars, backupVars>>

notTermVars == <<colorVars, qssVars, widgetVars, themeVars, convVars, backupVars>>

notThemeVars == <<colorVars, qssVars, widgetVars, termVars, convVars, backupVars>>

notConvVars == <<colorVars, qssVars, widgetVars, termVars, themeVars, backupVars>>

notBackupVars == <<colorVars, qssVars, widgetVars, termVars, themeVars, convVars>>

vars == <<colorVars, qssVars, widgetVars, moreVars>>

\* the operation was no edit of a property
NoEdit == [kind |-> "none", prop |-> <<>>, value |-> <<>>]

\* the widget editor with no theme loaded
IdleWidget ==
    /\ current_style = <<>>
    /\ properties = <<>>
    /\ wop = "idle"
    /\ edit = NoEdit

NoValue == <<"<none>">>

\* None as a theme name
NoName == ""

\* themes.json does not exist
NoFile == [kind |-> "none", data |-> <<>>]

\* themes.json holds something json.load raises on
BadJson == [kind |-> "bad", data |-> <<>>]

\* the last operation was not a call of validate()
NoValidation == [called |-> FALSE, theme |-> <<>>, result |-> <<>>]

\* the terminal theme editor has not been constructed
IdleTerminal ==
    /\ themes = <<>>
    /\ current_theme_name = NoName
    /\ unsaved_changes = FALSE
    /\ color_pickers = <<>>
    /\ selector_items = <<>>
    /\ selector_index = 0
    /\ themes_json = NoFile
    /\ persisted = <<>>
    /\ validation = NoValidation

\* None as a file path
NoPath == ""

\* the widget theme editor has not been constructed
IdleThemes ==
    /\ qt_themes = <<>>
    /\ styles_of = <<>>
    /\ qt_current_theme_name = NoName
    /\ widget_current = ""
    /\ qt_unsaved_changes = FALSE
    /\ current_file_path = NoPath
    /\ disk = <<>>
    /\ qt_op = "idle"
    /\ dialog_shown = FALSE
    /\ wrote = NoPath
    /\ tracked = NoPath
    /\ duplicate_of = <<>>

\* the converter has not been constructed
IdleConverter ==
    /\ terminal_themes = <<>>
    /\ source_theme_name = NoName
    /\ output_preview = <<>>
    /\ conv_op = "idle"

\* no ThemeManager has saved anything
IdleBackup ==
    /\ files = <<>>
    /\ backups = <<>>
    /\ now = 0
    /\ second = 0
    /\ bop = "idle"
    /\ target = NoPath
    /\ before = <<>>
    /\ made = {}

\* the components added to the three above are idle
IdleMore == IdleTerminal /\ IdleThemes /\ IdleConverter /\ IdleBackup

(***************************************************************************)
(* Characters                                                              *)
(***************************************************************************)
Digits == <<"0", "1", "2", "3", "4", "5", "6", "7", "8", "9">>

LowerLetters ==
    <<"a", "b", "c", "d", "e", "f", "g", "h", "i", "j", "k", "l", "m",
      "n", "o", "p", "q", "r", "s", "t", "u", "v", "w", "x", "y", "z">>

UpperLetters ==
    <<"A", "B", "C", "D", "E", "F", "G", "H", "I", "J", "K", "L", "M",
      "N", "O", "P", "Q", "R", "S", "T", "U", "V", "W", "X", "Y", "Z">>

Range(s) == {s[i] : i \in DOMAIN s}

\* \d of the re module (ASCII part)
DigitChars == Range(Digits)

\* [0-9A-F]
HexUpperChars == DigitChars \cup {"A", "B", "C", "D", "E", "F"}

\* [0-9A-Fa-f]
HexAnyChars == HexUpperChars \cup {"a", "b", "c", "d", "e", "f"}

\* \s of the re module and the characters str.strip() removes (ASCII part)
Whitespace == {" ", "\t", "\n"}

Min(S) == CHOOSE x \in S : \A y \in S : x <= y

Max(S) == CHOOSE x \in S : \A y \in S : x >= y

UpperChar(c) ==
    IF \E i \in DOMAIN LowerLetters : LowerLetters[i] = c
    THEN UpperLetters[CHOOSE i \in DOMAIN LowerLetters : LowerLetters[i] = c]
    ELSE c

LowerChar(c) ==
    IF \E i \in DOMAIN UpperLetters : UpperLetters[i] = c
    THEN LowerLetters[CHOOSE i \in DOMAIN UpperLetters : UpperLetters[i] = c]
    ELSE c

StrUpperForgotten(s) == s

\* str.upper()
StrUpper(s) == [i \in 1..Len(s) |-> UpperChar(s[i])]

\* str.lower()
StrLower(s) == [i \in 1..Len(s) |-> LowerChar(s[i])]

\* str.strip()
StrStrip(s) ==
    LET keep == {i \in 1..Len(s) : s[i] \notin Whitespace}
    IN  IF keep = {} THEN <<>> ELSE SubSeq(s, Min(keep), Max(keep))

\* the first index >= i of s whose character is outside class, Len(s)+1 if none:
\* where a greedy  class*  that starts at i stops
RunEnd(s, i, class) ==
    Min({k \in i..Len(s) : s[k] \notin class} \cup {Len(s) + 1})

DigitVal(c) == (CHOOSE i \in DOMAIN Digits : Digits[i] = c) - 1

\* int(text) for a string of decimal digits
RECURSIVE ParseInt(_)
ParseInt(ds) ==
    IF Len(ds) = 0 THEN 0
    ELSE 10 * ParseInt(SubSeq(ds, 1, Len(ds) - 1)) + DigitVal(ds[Len(ds)])

HexDigitChar(n) == IF n < 10 THEN Digits[n + 1] ELSE UpperLetters[n - 9]

\* format(n, "X")
RECURSIVE HexStr(_)
HexStr(n) ==
    IF n < 16 THEN <<HexDigitChar(n)>>
    ELSE HexStr(n \div 16) \o <<HexDigitChar(n % 16)>>

Hex02Short(n) == HexStr(n)

\* format(n, "02X"): upper-case hex, zero-padded to a minimum width of two
Hex02(n) == IF n < 16 THEN <<"0">> \o HexStr(n) ELSE HexStr(n)

\* re.match(r'^#[0-9A-F]{n}$', s) on a stripped s
IsHashHex(s, n) ==
    /\ Len(s) = n + 1
    /\ s[1] = "#"
    /\ \A i \in 2..(n + 1) : s[i] \in HexUpperChars

Black == <<"#", "0", "0", "0", "0", "0", "0">>

\* the keys of the named-colour table of QtWidgetThemeEditor._extract_color_from_value
ColorNames ==
    << <<"t","r","a","n","s","p","a","r","e","n","t">>,
       <<"n","o","n","e">>,
       <<"b","l","a","c","k">>,
       <<"w","h","i","t","e">>,
       <<"r","e","d">>,
       <<"g","r","e","e","n">>,
       <<"b","l","u","e">>,
       <<"y","e","l","l","o","w">>,
       <<"c","y","a","n">>,
       <<"m","a","g","e","n","t","a">>,
       <<"g","r","a","y">>,
       <<"g","r","e","y">>,
       <<"d","a","r","k","g","r","a","y">>,
       <<"d","a","r","k","g","r","e","y">>,
       <<"l","i","g","h","t","g","r","a","y">>,
       <<"l","i","g","h","t","g","r","e","y">> >>

\* the values of that table, in the same (dict insertion) order
NamedValues ==
    << <<"#", "0", "0", "0", "0", "0", "0">>,
       <<"#", "0", "0", "0", "0", "0", "0">>,
       <<"#", "0", "0", "0", "0", "0", "0">>,
       <<"#", "F", "F", "F", "F", "F", "F">>,
       <<"#", "F", "F", "0", "0", "0", "0">>,
       <<"#", "0", "0", "F", "F", "0", "0">>,
       <<"#", "0", "0", "0", "0", "F", "F">>,
       <<"#", "F", "F", "F", "F", "0", "0">>,
       <<"#", "0", "0", "F", "F", "F", "F">>,
       <<"#", "F", "F", "0", "0", "F", "F">>,
       <<"#", "8", "0", "8", "0", "8", "0">>,
       <<"#", "8", "0", "8", "0", "8", "0">>,
       <<"#", "A", "9", "A", "9", "A", "9">>,
       <<"#", "A", "9", "A", "9", "A", "9">>,
       <<"#", "D", "3", "D", "3", "D", "3">>,
       <<"#", "D", "3", "D", "3", "D", "3">> >>

(***************************************************************************)
(* rgb\((\d+),\s*(\d+),\s*(\d+)\)  under re.match: anchored at the start   *)
(* of the text only.  The classes \d, ',' and \s are disjoint, so the      *)
(* greedy scan is deterministic.  Returns the three groups, or <<>>.       *)
(***************************************************************************)
RgbMatch(s) ==
    LET a1 == 5
        e1 == RunEnd(s, a1, DigitChars)
        a2 == RunEnd(s, e1 + 1, Whitespace)
        e2 == RunEnd(s, a2, DigitChars)
        a3 == RunEnd(s, e2 + 1, Whitespace)
        e3 == RunEnd(s, a3, DigitChars)
    IN  IF /\ Len(s) >= 4
           /\ SubSeq(s, 1, 4) = <<"r", "g", "b", "(">>
           /\ e1 > a1
           /\ e1 <= Len(s) /\ s[e1] = ","
           /\ e2 > a2
           /\ e2 <= Len(s) /\ s[e2] = ","
           /\ e3 > a3
           /\ e3 <= Len(s) /\ s[e3] = ")"
        THEN <<SubSeq(s, a1, e1 - 1), SubSeq(s, a2, e2 - 1), SubSeq(s, a3, e3 - 1)>>
        ELSE <<>>

\* f"#{r:02X}{g:02X}{b:02X}" of the three matched groups
RgbFormat(m) ==
    <<"#">> \o Hex02(ParseInt(m[1])) \o Hex02(ParseInt(m[2])) \o Hex02(ParseInt(m[3]))

ExpandShortRepeated(c) == <<"#", c[2], c[3], c[4], c[2], c[3], c[4]>>

\* the #RGB branch: r, g, b = color[1], color[2], color[3]
ExpandShort(c) == <<"#", c[2], c[2], c[3], c[3], c[4], c[4]>>

\* _normalize_color with an extra branch that keeps the RGB part of #RRGGBBAA
NormalizeColorAlpha(s) ==
    LET c == StrUpper(StrStrip(s))
        m == RgbMatch(StrLower(c))
    IN  IF IsHashHex(c, 3) THEN ExpandShort(c)
        ELSE IF IsHashHex(c, 6) THEN c
        ELSE IF IsHashHex(c, 8) THEN SubSeq(c, 1, 7)
        ELSE IF m # <<>> THEN RgbFormat(m)
        ELSE Black

\* _normalize_color with an extra branch that looks the text up in the named-colour table
NormalizeColorNamed(s) ==
    LET c == StrUpper(StrStrip(s))
        m == RgbMatch(StrLower(c))
        named == {i \in DOMAIN ColorNames : ColorNames[i] = StrLower(c)}
    IN  IF IsHashHex(c, 3) THEN ExpandShort(c)
        ELSE IF IsHashHex(c, 6) THEN c
        ELSE IF m # <<>> THEN RgbFormat(m)
        ELSE IF named # {} THEN NamedValues[Min(named)]
        ELSE Black

(***************************************************************************)
(* ColorPickerButton._normalize_color                                      *)
(***************************************************************************)
NormalizeColor(s) ==
    LET c == StrUpper(StrStrip(s))
        m == RgbMatch(StrLower(c))
    IN  IF IsHashHex(c, 3) THEN ExpandShort(c)
        ELSE IF IsHashHex(c, 6) THEN c
        ELSE IF m # <<>> THEN RgbFormat(m)
        ELSE Black

(***************************************************************************)
(* TerminalTheme.normalize_hex: the same branches, but an unrecognised     *)
(* text is returned as it is (stripped and upper-cased).                   *)
(***************************************************************************)
NormalizeHex(s) ==
    LET c == StrUpper(StrStrip(s))
        m == RgbMatch(StrLower(c))
    IN  IF IsHashHex(c, 3) THEN ExpandShort(c)
        ELSE IF IsHashHex(c, 6) THEN c
        ELSE IF m # <<>> THEN RgbFormat(m)
        ELSE c

(***************************************************************************)
(* ColorPickerButton._is_valid_hex: re.match(r'^#[0-9A-F]{6}$', color).    *)
(* '$' also matches just before one trailing newline.                      *)
(***************************************************************************)
IsValidHexAnyCase(s) ==
    /\ Len(s) \in {7, 8}
    /\ IsHashHex(StrUpper(SubSeq(s, 1, 7)), 6)
    /\ Len(s) = 8 => s[8] = "\n"

IsValidHex(s) ==
    \/ IsHashHex(s, 6)
    \/ /\ Len(s) = 8
       /\ s[8] = "\n"
       /\ IsHashHex(SubSeq(s, 1, 7), 6)

(***************************************************************************)
(* ColorPickerButton._get_contrast_color and _hex_to_rgb                   *)
(***************************************************************************)
White == <<"#", "F", "F", "F", "F", "F", "F">>

\* hex_color.lstrip('#')
LStripHash(s) ==
    LET n == Len(s)
        hashes == {i \in 0..n : \A j \in 1..i : s[j] = "#"}
    IN  SubSeq(s, Max(hashes) + 1, n)

\* int(c, 16) for one hex digit of either case
HexCharVal(c) == CHOOSE v \in 0..15 : HexDigitChar(v) = UpperChar(c)

\* hex_color[i:i+2] for the k-th of i in (0, 2, 4): a slice stops at the end of the text
HexSlice(h, k) == SubSeq(h, 2 * k - 1, Min({2 * k, Len(h)}))

\* int(text, 16) for a text of one or two hex digits
HexInt(ds) == IF Len(ds) = 1 THEN HexCharVal(ds[1]) ELSE 16 * HexCharVal(ds[1]) + HexCharVal(ds[2])

\* int(..., 16) raises ValueError for an empty slice or one with another character
HexToRgbRaises(hex_color) ==
    LET h == LStripHash(hex_color)
    IN  \E k \in 1..3 :
            \/ HexSlice(h, k) = <<>>
            \/ \E i \in DOMAIN HexSlice(h, k) : HexSlice(h, k)[i] \notin HexAnyChars

\* _hex_to_rgb: int(hex_color[i:i+2], 16) for i in (0, 2, 4)
HexToRgb(hex_color) ==
    LET h == LStripHash(hex_color)
    IN  [k \in 1..3 |-> HexInt(HexSlice(h, k))]

\* luminance > 0.5 with luminance = (0.2126*r + 0.7152*g + 0.0722*b) / 255, both
\* sides scaled by 10000 * 255 (the float comparison agrees with the scaled
\* integer comparison for every r, g, b in 0..255)
IsLightOrHalf(rgb) == 2126 * rgb[1] + 7152 * rgb[2] + 722 * rgb[3] >= 1275000

IsLight(rgb) == 2126 * rgb[1] + 7152 * rgb[2] + 722 * rgb[3] > 1275000

\* the ValueError of _hex_to_rgb leaves no text colour
ValueError == <<"ValueError">>

GetContrastColor(c) ==
    IF HexToRgbRaises(c) THEN ValueError
    ELSE IF IsLight(HexToRgb(c)) THEN Black ELSE White

(***************************************************************************)
(* QtWidgetThemeEditor._extract_color_from_value                           *)
(***************************************************************************)
\* s contains sub as a substring:  sub in s
Contains(s, sub) ==
    \E i \in 1..(Len(s) - Len(sub) + 1) : SubSeq(s, i, i + Len(sub) - 1) = sub

\* a match of  #[0-9A-Fa-f]{6}  starts at index i of s
HexTokenAt(s, i) ==
    /\ i + 6 <= Len(s)
    /\ s[i] = "#"
    /\ \A k \in (i + 1)..(i + 6) : s[k] \in HexAnyChars

\* the end of the match of  #[0-9A-Fa-f]{6}(?:[0-9A-Fa-f]{2})?  that starts at i:
\* the optional group is greedy, it takes two more hex digits when both are there
HexTokenEnd(s, i) ==
    IF i + 8 <= Len(s) /\ s[i + 7] \in HexAnyChars /\ s[i + 8] \in HexAnyChars
    THEN i + 8
    ELSE i + 6

\* the extractor taking the last hex token of the value instead of the first
ExtractColorFromValueLastToken(value) ==
    LET starts == {i \in 1..Len(value) : HexTokenAt(value, i)}
    IN  IF starts # {}
        THEN StrUpper(SubSeq(value, Max(starts), HexTokenEnd(value, Max(starts))))
        ELSE NoValue

ExtractColorFromValue(value) ==
    LET value_lower == StrLower(value)
        starts == {i \in 1..Len(value) : HexTokenAt(value, i)}
        whole == {i \in DOMAIN ColorNames : ColorNames[i] = value_lower}
        inside == {i \in DOMAIN ColorNames : Contains(value_lower, ColorNames[i])}
    IN  IF starts # {}
        THEN StrUpper(SubSeq(value, Min(starts), HexTokenEnd(value, Min(starts))))
        ELSE IF whole # {} THEN NamedValues[Min(whole)]
        ELSE IF inside # {} THEN NamedValues[Min(inside)]
        ELSE NoValue

(***************************************************************************)
(* QSSPalette and the stylesheet text                                      *)
(*                                                                         *)
(* A stylesheet is modelled as the sequence of its blocks, in document     *)
(* order.  A block is the selector list before its '{' and its             *)
(* declarations; a selector is the sequence of its name and pseudo parts   *)
(* ("QPushButton", ":hover"); a declaration is the property name, split at *)
(* its dashes, and the value tokens, each a sequence of characters.  The   *)
(* layout is the generator's: the selector list and '{' on one line, one   *)
(* declaration per line.  Comments hold none of the searched words.        *)
(***************************************************************************)
Block(sel, body) == [sel |-> sel, body |-> body]

Decl(prop, val) == [prop |-> prop, val |-> val]

Fields ==
    {"background", "foreground", "primary", "secondary", "border", "hover",
     "selected", "disabled"}

\* the field defaults of the dataclass
DefaultPalette ==
    [background |-> <<"#", "F", "F", "F", "F", "F", "F">>,
     foreground |-> <<"#", "0", "0", "0", "0", "0", "0">>,
     primary |-> <<"#", "0", "0", "7", "8", "D", "4">>,
     secondary |-> <<"#", "6", "C", "7", "5", "7", "D">>,
     border |-> <<"#", "C", "C", "C", "C", "C", "C">>,
     hover |-> <<"#", "E", "5", "E", "5", "E", "5">>,
     selected |-> <<"#", "0", "0", "7", "8", "D", "4">>,
     disabled |-> <<"#", "9", "9", "9", "9", "9", "9">>]

(***************************************************************************)
(* QSSPalette._generate_default_qss: the f-string template, block by block *)
(***************************************************************************)
GenerateDefaultQss(p) ==
    <<
       Block(<< <<"QWidget">> >>,
             <<Decl(<<"background", "color">>, <<p.background>>),
               Decl(<<"color">>, <<p.foreground>>),
               Decl(<<"font", "size">>, << <<"1", "0", "p", "t">> >>)>>),
       Block(<< <<"QPushButton">> >>,
             <<Decl(<<"background", "color">>, <<p.primary>>),
               Decl(<<"color">>, <<p.background>>),
               Decl(<<"border">>, << <<"1", "p", "x">>, <<"s", "o", "l", "i", "d">>, p.border>>),
               Decl(<<"border", "radius">>, << <<"4", "p", "x">> >>),
               Decl(<<"padding">>, << <<"5", "p", "x">>, <<"1", "5", "p", "x">> >>),
               Decl(<<"min", "width">>, << <<"8", "0", "p", "x">> >>)>>),
       Block(<< <<"QPushButton", ":hover">> >>,
             <<Decl(<<"background", "color">>, <<p.hover>>),
               Decl(<<"color">>, <<p.foreground>>)>>),
       Block(<< <<"QPushButton", ":pressed">> >>,
             <<Decl(<<"background", "color">>, <<p.selected>>),
               Decl(<<"color">>, <<p.background>>)>>),
       Block(<< <<"QPushButton", ":disabled">> >>,
             <<Decl(<<"background", "color">>, <<p.disabled>>),
               Decl(<<"color">>, <<p.border>>)>>),
       Block(<< <<"QLineEdit">>, <<"QTextEdit">>, <<"QPlainTextEdit">> >>,
             <<Decl(<<"background", "color">>, <<p.background>>),
               Decl(<<"color">>, <<p.foreground>>),
               Decl(<<"border">>, << <<"1", "p", "x">>, <<"s", "o", "l", "i", "d">>, p.border>>),
               Decl(<<"border", "radius">>, << <<"3", "p", "x">> >>),
               Decl(<<"padding">>, << <<"4", "p", "x">> >>)>>),
       Block(<< <<"QLineEdit", ":focus">>, <<"QTextEdit", ":focus">>, <<"QPlainTextEdit", ":focus">> >>,
             <<Decl(<<"border">>, << <<"2", "p", "x">>, <<"s", "o", "l", "i", "d">>, p.primary>>)>>),
       Block(<< <<"QComboBox">> >>,
             <<Decl(<<"background", "color">>, <<p.background>>),
               Decl(<<"color">>, <<p.foreground>>),
               Decl(<<"border">>, << <<"1", "p", "x">>, <<"s", "o", "l", "i", "d">>, p.border>>),
               Decl(<<"border", "radius">>, << <<"3", "p", "x">> >>),
               Decl(<<"padding">>, << <<"4", "p", "x">> >>)>>),
       Block(<< <<"QComboBox", ":hover">> >>,
             <<Decl(<<"border">>, << <<"1", "p", "x">>, <<"s", "o", "l", "i", "d">>, p.primary>>)>>),
       Block(<< <<"QComboBox", "::drop-down">> >>,
             <<Decl(<<"border">>, << <<"n", "o", "n", "e">> >>)>>),
       Block(<< <<"QComboBox", " ", "QAbstractItemView">> >>,
             <<Decl(<<"background", "color">>, <<p.background>>),
               Decl(<<"color">>, <<p.foreground>>),
               Decl(<<"selection", "background", "color">>, <<p.selected>>),
               Decl(<<"selection", "color">>, <<p.background>>)>>),
       Block(<< <<"QSpinBox">>, <<"QDoubleSpinBox">> >>,
             <<Decl(<<"background", "color">>, <<p.background>>),
               Decl(<<"color">>, <<p.foreground>>),
               Decl(<<"border">>, << <<"1", "p", "x">>, <<"s", "o", "l", "i", "d">>, p.border>>),
               Decl(<<"border", "radius">>, << <<"3", "p", "x">> >>),
               Decl(<<"padding">>, << <<"3", "p", "x">> >>)>>),
       Block(<< <<"QCheckBox">>, <<"QRadioButton">> >>,
             <<Decl(<<"color">>, <<p.foreground>>),
               Decl(<<"spacing">>, << <<"5", "p", "x">> >>)>>),
       Block(<< <<"QCheckBox", "::indicator">>, <<"QRadioButton", "::indicator">> >>,
             <<Decl(<<"width">>, << <<"1", "6", "p", "x">> >>),
               Decl(<<"height">>, << <<"1", "6", "p", "x">> >>),
               Decl(<<"border">>, << <<"1", "p", "x">>, <<"s", "o", "l", "i", "d">>, p.border>>),
               Decl(<<"background", "color">>, <<p.background>>)>>),
       Block(<< <<"QCheckBox", "::indicator", ":checked">>, <<"QRadioButton", "::indicator", ":checked">> >>,
             <<Decl(<<"background", "color">>, <<p.primary>>)>>),
       Block(<< <<"QProgressBar">> >>,
             <<Decl(<<"background", "color">>, <<p.background>>),
               Decl(<<"border">>, << <<"1", "p", "x">>, <<"s", "o", "l", "i", "d">>, p.border>>),
               Decl(<<"border", "radius">>, << <<"3", "p", "x">> >>),
               Decl(<<"text", "align">>, << <<"c", "e", "n", "t", "e", "r">> >>)>>),
       Block(<< <<"QProgressBar", "::chunk">> >>,
             <<Decl(<<"background", "color">>, <<p.primary>>),
               Decl(<<"border", "radius">>, << <<"2", "p", "x">> >>)>>),
       Block(<< <<"QSlider", "::groove", ":horizontal">> >>,
             <<Decl(<<"background">>, <<p.border>>),
               Decl(<<"height">>, << <<"6", "p", "x">> >>),
               Decl(<<"border", "radius">>, << <<"3", "p", "x">> >>)>>),
       Block(<< <<"QSlider", "::handle", ":horizontal">> >>,
             <<Decl(<<"background">>, <<p.primary>>),
               Decl(<<"width">>, << <<"1", "6", "p", "x">> >>),
               Decl(<<"margin">>, << <<"-", "5", "p", "x">>, <<"0">> >>),
               Decl(<<"border", "radius">>, << <<"8", "p", "x">> >>)>>),
       Block(<< <<"QListWidget">>, <<"QTreeWidget">>, <<"QTableWidget">> >>,
             <<Decl(<<"background", "color">>, <<p.background>>),
               Decl(<<"color">>, <<p.foreground>>),
               Decl(<<"border">>, << <<"1", "p", "x">>, <<"s", "o", "l", "i", "d">>, p.border>>),
               Decl(<<"alternate", "background", "color">>, <<p.hover>>)>>),
       Block(<< <<"QListWidget", "::item", ":selected">>, <<"QTreeWidget", "::item", ":selected">>, <<"QTableWidget", "::item", ":selected">> >>,
             <<Decl(<<"background", "color">>, <<p.selected>>),
               Decl(<<"color">>, <<p.background>>)>>),
       Block(<< <<"QTabWidget", "::pane">> >>,
             <<Decl(<<"border">>, << <<"1", "p", "x">>, <<"s", "o", "l", "i", "d">>, p.border>>),
               Decl(<<"background", "color">>, <<p.background>>)>>),
       Block(<< <<"QTabBar", "::tab">> >>,
             <<Decl(<<"background", "color">>, <<p.hover>>),
               Decl(<<"color">>, <<p.foreground>>),
               Decl(<<"border">>, << <<"1", "p", "x">>, <<"s", "o", "l", "i", "d">>, p.border>>),
               Decl(<<"padding">>, << <<"6", "p", "x">>, <<"1", "2", "p", "x">> >>)>>),
       Block(<< <<"QTabBar", "::tab", ":selected">> >>,
             <<Decl(<<"background", "color">>, <<p.primary>>),
               Decl(<<"color">>, <<p.background>>)>>),
       Block(<< <<"QGroupBox">> >>,
             <<Decl(<<"border">>, << <<"1", "p", "x">>, <<"s", "o", "l", "i", "d">>, p.border>>),
               Decl(<<"border", "radius">>, << <<"4", "p", "x">> >>),
               Decl(<<"margin", "top">>, << <<"1", "0", "p", "x">> >>),
               Decl(<<"padding", "top">>, << <<"1", "0", "p", "x">> >>),
               Decl(<<"color">>, <<p.foreground>>)>>),
       Block(<< <<"QGroupBox", "::title">> >>,
             <<Decl(<<"subcontrol", "origin">>, << <<"m", "a", "r", "g", "i", "n">> >>),
               Decl(<<"subcontrol", "position">>, << <<"t", "o", "p">>, <<"l", "e", "f", "t">> >>),
               Decl(<<"padding">>, << <<"0">>, <<"5", "p", "x">> >>),
               Decl(<<"color">>, <<p.foreground>>)>>),
       Block(<< <<"QMenuBar">> >>,
             <<Decl(<<"background", "color">>, <<p.background>>),
               Decl(<<"color">>, <<p.foreground>>)>>),
       Block(<< <<"QMenuBar", "::item", ":selected">> >>,
             <<Decl(<<"background", "color">>, <<p.hover>>)>>),
       Block(<< <<"QMenu">> >>,
             <<Decl(<<"background", "color">>, <<p.background>>),
               Decl(<<"color">>, <<p.foreground>>),
               Decl(<<"border">>, << <<"1", "p", "x">>, <<"s", "o", "l", "i", "d">>, p.border>>)>>),
       Block(<< <<"QMenu", "::item", ":selected">> >>,
             <<Decl(<<"background", "color">>, <<p.selected>>),
               Decl(<<"color">>, <<p.background>>)>>),
       Block(<< <<"QStatusBar">> >>,
             <<Decl(<<"background", "color">>, <<p.background>>),
               Decl(<<"color">>, <<p.foreground>>),
               Decl(<<"border", "top">>, << <<"1", "p", "x">>, <<"s", "o", "l", "i", "d">>, p.border>>)>>),
       Block(<< <<"QScrollBar", ":vertical">> >>,
             <<Decl(<<"background">>, <<p.background>>),
               Decl(<<"width">>, << <<"1", "2", "p", "x">> >>),
               Decl(<<"border">>, << <<"1", "p", "x">>, <<"s", "o", "l", "i", "d">>, p.border>>)>>),
       Block(<< <<"QScrollBar", "::handle", ":vertical">> >>,
             <<Decl(<<"background">>, <<p.primary>>),
               Decl(<<"min", "height">>, << <<"2", "0", "p", "x">> >>),
               Decl(<<"border", "radius">>, << <<"4", "p", "x">> >>)>>),
       Block(<< <<"QScrollBar", "::add-line", ":vertical">>, <<"QScrollBar", "::sub-line", ":vertical">> >>,
             <<Decl(<<"height">>, << <<"0", "p", "x">> >>)>>)
    >>

\* the blocks of a text in the opposite order
ReverseBlocks(text) == [i \in DOMAIN text |-> text[Len(text) + 1 - i]]

\* a generator whose block order depends on the palette
GenerateQssReordered(p, template) ==
    IF p.background = DefaultPalette.background
    THEN GenerateDefaultQss(p)
    ELSE ReverseBlocks(GenerateDefaultQss(p))

\* a generator that swaps the roles of primary and hover
GenerateQssSwapped(p, template) ==
    GenerateDefaultQss([p EXCEPT !.primary = p.hover, !.hover = p.primary])

\* QSSPalette.generate_qss: every template name ends in the default template
GenerateQss(p, template) ==
    IF template = "material" THEN GenerateDefaultQss(p)
    ELSE IF template = "flat" THEN GenerateDefaultQss(p)
    ELSE IF template = "classic" THEN GenerateDefaultQss(p)
    ELSE GenerateDefaultQss(p)

(***************************************************************************)
(* The regular expressions of QSSPalette.from_qss                          *)
(***************************************************************************)
\* \w
WordChars == Range(Digits) \cup Range(LowerLetters) \cup Range(UpperLetters) \cup {"_"}

\* (#[0-9A-Fa-f]{6}) matches at the start of the token
StartsWithHex6(tok) ==
    /\ Len(tok) >= 7
    /\ tok[1] = "#"
    /\ \A k \in 2..7 : tok[k] \in HexAnyChars

\* #[0-9A-Fa-f]{6}\b matches at the start of the token: the six digits end a word
Hex6Word(tok) ==
    /\ StartsWithHex6(tok)
    /\ Len(tok) = 7 \/ tok[8] \notin WordChars

HasColorsNoBoundary(text) ==
    \E i \in DOMAIN text : \E j \in DOMAIN text[i].body :
        \E k \in DOMAIN text[i].body[j].val : StartsWithHex6(text[i].body[j].val[k])

\* hex_pattern.findall(qss_code) is not empty
HasColors(text) ==
    \E i \in DOMAIN text : \E j \in DOMAIN text[i].body :
        \E k \in DOMAIN text[i].body[j].val : Hex6Word(text[i].body[j].val[k])

EndsWith(s, suffix) ==
    /\ Len(s) >= Len(suffix)
    /\ SubSeq(s, Len(s) - Len(suffix) + 1, Len(s)) = suffix

\*  <selector>\s*\{  : the selector text right before the '{' ends with the name
SelectorMatches(b, name) ==
    /\ b.sel # <<>>
    /\ EndsWith(b.sel[Len(b.sel)], name)

\*  <prop>:\s*(#[0-9A-Fa-f]{6})  : the property name ends with prop and the
\*  value starts with a hex colour
DeclMatches(d, prop) ==
    /\ EndsWith(d.prop, prop)
    /\ d.val # <<>>
    /\ StartsWithHex6(d.val[1])

NoMatch == <<>>

\* match.group(1): the '#' and six digits
Group1(tok) == SubSeq(tok, 1, 7)

FirstOf(S) == Min(S)

LastOf(S) == Max(S)

PickBlockLast(S) == Max(S)

\* the block re.search stops at: the leftmost one that matches
PickBlock(S) == Min(S)

\* re.search(r'<selector>\s*\{[^}]*<prop>:\s*(#[0-9A-Fa-f]{6})', qss_code):
\* the leftmost block whose selector and body match; [^}]* is greedy, so inside
\* that block the last matching declaration is the one captured
BlockSearch(text, name, prop) ==
    LET hits == {i \in DOMAIN text :
                    /\ SelectorMatches(text[i], name)
                    /\ \E j \in DOMAIN text[i].body : DeclMatches(text[i].body[j], prop)}
    IN  IF hits = {} THEN NoMatch
        ELSE LET body == text[PickBlock(hits)].body
                 j == LastOf({k \in DOMAIN body : DeclMatches(body[k], prop)})
             IN  Group1(body[j].val[1])

\*  border.*:\s*(#[0-9A-Fa-f]{6})  on one declaration line: "border" occurs in
\*  the property name and the value starts with a hex colour
BorderDeclMatches(d) ==
    /\ \E k \in DOMAIN d.prop : d.prop[k] = "border"
    /\ d.val # <<>>
    /\ StartsWithHex6(d.val[1])

\* re.search(r'border.*:\s*(#[0-9A-Fa-f]{6})', qss_code): '.' stays on the line,
\* the leftmost matching line is taken
BorderSearch(text) ==
    LET hits == {i \in DOMAIN text : \E j \in DOMAIN text[i].body : BorderDeclMatches(text[i].body[j])}
    IN  IF hits = {} THEN NoMatch
        ELSE LET body == text[FirstOf(hits)].body
                 j == FirstOf({k \in DOMAIN body : BorderDeclMatches(body[k])})
             IN  Group1(body[j].val[1])

AssignBlank(m, default) == IF m # NoMatch THEN StrUpper(m) ELSE <<>>

\* if m: palette.<field> = m.group(1).upper()
Assign(m, default) == IF m # NoMatch THEN StrUpper(m) ELSE default

\* from_qss with rules for all eight fields
FromQssAllFields(text) ==
    IF ~HasColors(text) THEN DefaultPalette
    ELSE [background |-> Assign(BlockSearch(text, <<"QWidget">>, <<"background", "color">>),
                                DefaultPalette.background),
          foreground |-> Assign(BlockSearch(text, <<"QWidget">>, <<"color">>),
                                DefaultPalette.foreground),
          primary |-> Assign(BlockSearch(text, <<"QPushButton">>, <<"background", "color">>),
                             DefaultPalette.primary),
          secondary |-> Assign(BlockSearch(text, <<"QPushButton">>, <<"color">>),
                               DefaultPalette.secondary),
          border |-> Assign(BorderSearch(text), DefaultPalette.border),
          hover |-> Assign(BlockSearch(text, <<":hover">>, <<"background", "color">>),
                           DefaultPalette.hover),
          selected |-> Assign(BlockSearch(text, <<"::item", ":selected">>, <<"background", "color">>),
                              DefaultPalette.selected),
          disabled |-> Assign(BlockSearch(text, <<":disabled">>, <<"background", "color">>),
                              DefaultPalette.disabled)]

(***************************************************************************)
(* QSSPalette.from_qss                                                     *)
(***************************************************************************)
FromQss(text) ==
    IF ~HasColors(text) THEN DefaultPalette
    ELSE [background |-> Assign(BlockSearch(text, <<"QWidget">>, <<"background", "color">>),
                                DefaultPalette.background),
          foreground |-> Assign(BlockSearch(text, <<"QWidget">>, <<"color">>),
                                DefaultPalette.foreground),
          primary |-> Assign(BlockSearch(text, <<"QPushButton">>, <<"background", "color">>),
                             DefaultPalette.primary),
          secondary |-> DefaultPalette.secondary,
          border |-> Assign(BorderSearch(text), DefaultPalette.border),
          hover |-> Assign(BlockSearch(text, <<":hover">>, <<"background", "color">>),
                           DefaultPalette.hover),
          selected |-> Assign(BlockSearch(text, <<"::item", ":selected">>, <<"background", "color">>),
                              DefaultPalette.selected),
          disabled |-> DefaultPalette.disabled]

(***************************************************************************)
(* ThemeEditorWindow.extract_colors_from_qss (tools/theme_editor.py): three *)
(* patterns searched in the whole text, not scoped to a block              *)
(***************************************************************************)
\* the declarations of the text in document order, as <<block, declaration>> indexes
DeclIndexes(text) == UNION {{<<i, j>> : j \in DOMAIN text[i].body} : i \in DOMAIN text}

Before(a, b) == a[1] < b[1] \/ (a[1] = b[1] /\ a[2] < b[2])

\* re.search(pattern, qss_content) for 'background-color:\s*(#...)' and
\* 'color:\s*(#...)': the leftmost matching declaration
DeclSearch(text, prop) ==
    LET hits == {x \in DeclIndexes(text) :
                    /\ DeclMatches(text[x[1]].body[x[2]], prop)}
    IN  IF hits = {} THEN NoMatch
        ELSE LET x == CHOOSE h \in hits : \A o \in hits : o = h \/ Before(h, o)
             IN  Group1(text[x[1]].body[x[2]].val[1])

\* 'border:.*?(#[0-9a-fA-F]{6})': a property named exactly "...border" followed
\* on its line by a hex colour; the lazy .*? stops at the first one
BorderLineMatches(d) ==
    /\ d.prop # <<>>
    /\ d.prop[Len(d.prop)] = "border"
    /\ \E k \in DOMAIN d.val : StartsWithHex6(d.val[k])

BorderLineSearch(text) ==
    LET hits == {x \in DeclIndexes(text) :
                    /\ BorderLineMatches(text[x[1]].body[x[2]])}
    IN  IF hits = {} THEN NoMatch
        ELSE LET x == CHOOSE h \in hits : \A o \in hits : o = h \/ Before(h, o)
                 d == text[x[1]].body[x[2]]
             IN  Group1(d.val[FirstOf({k \in DOMAIN d.val : StartsWithHex6(d.val[k])})])

\* the initial color_scheme of ThemeEditorWindow
InitialColorScheme ==
    [background |-> <<"#", "1", "e", "1", "e", "1", "e">>,
     foreground |-> <<"#", "e", "0", "e", "0", "e", "0">>,
     primary |-> <<"#", "0", "0", "7", "a", "c", "c">>,
     secondary |-> <<"#", "3", "c", "3", "c", "3", "c">>,
     border |-> <<"#", "5", "a", "5", "a", "5", "a">>,
     hover |-> <<"#", "1", "1", "7", "7", "b", "b">>,
     selected |-> <<"#", "0", "9", "4", "7", "7", "1">>,
     disabled |-> <<"#", "6", "d", "6", "d", "6", "d">>]

\* if match and key in self.color_buttons: ... self.color_scheme[key] = color
Keep(m, old) == IF m # NoMatch THEN m ELSE old

ExtractColorsFromQss(scheme, text) ==
    [scheme EXCEPT
        !.background = Keep(DeclSearch(text, <<"background", "color">>), @),
        !.foreground = Keep(DeclSearch(text, <<"color">>), @),
        !.border = Keep(BorderLineSearch(text), @)]

(***************************************************************************)
(* QSSThemeEditor (modules/qss_theme_editor.py) and the extractor of the   *)
(* standalone tool                                                         *)
(***************************************************************************)
NoPalette == [none |-> TRUE]

MaterialDark ==
    [background |-> <<"#", "1", "E", "1", "E", "1", "E">>,
     foreground |-> <<"#", "F", "F", "F", "F", "F", "F">>,
     primary |-> <<"#", "B", "B", "8", "6", "F", "C">>,
     secondary |-> <<"#", "0", "3", "D", "A", "C", "6">>,
     border |-> <<"#", "3", "C", "3", "C", "3", "C">>,
     hover |-> <<"#", "2", "D", "2", "D", "2", "D">>,
     selected |-> <<"#", "B", "B", "8", "6", "F", "C">>,
     disabled |-> <<"#", "6", "6", "6", "6", "6", "6">>]

MaterialLight ==
    [background |-> <<"#", "F", "A", "F", "A", "F", "A">>,
     foreground |-> <<"#", "2", "1", "2", "1", "2", "1">>,
     primary |-> <<"#", "6", "2", "0", "0", "E", "E">>,
     secondary |-> <<"#", "0", "3", "D", "A", "C", "6">>,
     border |-> <<"#", "E", "0", "E", "0", "E", "0">>,
     hover |-> <<"#", "F", "5", "F", "5", "F", "5">>,
     selected |-> <<"#", "6", "2", "0", "0", "E", "E">>,
     disabled |-> <<"#", "B", "D", "B", "D", "B", "D">>]

FlatDark ==
    [background |-> <<"#", "2", "C", "3", "E", "5", "0">>,
     foreground |-> <<"#", "E", "C", "F", "0", "F", "1">>,
     primary |-> <<"#", "3", "4", "9", "8", "D", "B">>,
     secondary |-> <<"#", "2", "E", "C", "C", "7", "1">>,
     border |-> <<"#", "3", "4", "4", "9", "5", "E">>,
     hover |-> <<"#", "3", "4", "4", "9", "5", "E">>,
     selected |-> <<"#", "3", "4", "9", "8", "D", "B">>,
     disabled |-> <<"#", "7", "F", "8", "C", "8", "D">>]

FlatLight ==
    [background |-> <<"#", "E", "C", "F", "0", "F", "1">>,
     foreground |-> <<"#", "2", "C", "3", "E", "5", "0">>,
     primary |-> <<"#", "3", "4", "9", "8", "D", "B">>,
     secondary |-> <<"#", "2", "E", "C", "C", "7", "1">>,
     border |-> <<"#", "B", "D", "C", "3", "C", "7">>,
     hover |-> <<"#", "E", "0", "E", "0", "E", "0">>,
     selected |-> <<"#", "3", "4", "9", "8", "D", "B">>,
     disabled |-> <<"#", "9", "5", "A", "5", "A", "6">>]

TemplatePalettes == {MaterialDark, MaterialLight, FlatDark, FlatLight}

\* colours the user dials into the pickers: eight values, all different from
\* each other and from every default
PickedPalette ==
    [background |-> <<"#", "2", "8", "2", "8", "2", "8">>,
     foreground |-> <<"#", "E", "B", "D", "B", "B", "2">>,
     primary |-> <<"#", "4", "5", "8", "5", "8", "8">>,
     secondary |-> <<"#", "6", "8", "9", "D", "6", "A">>,
     border |-> <<"#", "9", "2", "8", "3", "7", "4">>,
     hover |-> <<"#", "3", "C", "3", "8", "3", "6">>,
     selected |-> <<"#", "D", "7", "9", "9", "2", "1">>,
     disabled |-> <<"#", "5", "0", "4", "9", "4", "5">>]

\* the palettes after the user's picker edits (_on_color_changed, field by field)
PaletteInputs ==
    {[f \in Fields |-> IF f \in S THEN PickedPalette[f] ELSE DefaultPalette[f]] :
        S \in SUBSET Fields}

MaxBlocks == 2

Px1 == <<"1", "p", "x">>

Solid == <<"s", "o", "l", "i", "d">>

ColA == <<"#", "1", "1", "1", "1", "1", "1">>
ColB == <<"#", "2", "2", "a", "a", "2", "2">>
ColC == <<"#", "3", "3", "3", "3", "3", "3">>
ColD == <<"#", "4", "D", "4", "D", "4", "D">>
ColE == <<"#", "5", "5", "5", "5", "5", "5">>
ColF == <<"#", "f", "f", "0", "0", "a", "a">>
ColAlpha == <<"#", "F", "F", "0", "0", "A", "A", "8", "0">>

BgColor == <<"background", "color">>

\* the blocks the hand-written texts are made of
BlockPool ==
    { Block(<< <<"QPushButton">> >>, << Decl(BgColor, <<ColA>>) >>),
      Block(<< <<"QPushButton">> >>, << Decl(BgColor, <<ColB>>), Decl(BgColor, <<ColC>>) >>),
      Block(<< <<"QPushButton">> >>, << Decl(BgColor, << <<"r", "e", "d">> >>) >>),
      Block(<< <<"QWidget">> >>, << Decl(BgColor, <<ColD>>) >>),
      Block(<< <<"QWidget">> >>, << Decl(<<"color">>, <<ColF>>), Decl(BgColor, <<ColE>>) >>),
      Block(<< <<"QPushButton", ":hover">> >>, << Decl(BgColor, <<ColC>>) >>),
      Block(<< <<"QTreeView">>, <<"QMenu", "::item", ":selected">> >>, << Decl(BgColor, <<ColAlpha>>) >>),
      Block(<< <<"QFrame">> >>,
            << Decl(<<"border", "top", "color">>, <<ColA>>), Decl(<<"border">>, <<Px1, Solid, ColE>>) >>) }

\* the texts of the .qss files
TextInputs == UNION {[1..n -> BlockPool] : n \in 0..MaxBlocks}

IdleQss ==
    /\ current_palette = DefaultPalette
    /\ code = <<>>
    /\ generatedFrom = NoPalette
    /\ qop = "idle"
    /\ file = <<>>
    /\ qss_editor = <<>>
    /\ color_scheme = InitialColorScheme

\* no colour operation is under way
IdleColor ==
    /\ color = Black
    /\ arg = <<>>
    /\ ret = NoValue
    /\ op = "idle"
    /\ warned = FALSE
    /\ emitted = FALSE
    /\ text_color = White

\* __init__ and _load_default_theme; the user has then either set the pickers
\* (_on_color_changed, field by field) or has a .qss file to open
InitQss ==
    /\ \/ /\ current_palette \in PaletteInputs
          /\ file = <<>>
       \/ /\ current_palette = DefaultPalette
          /\ file \in TextInputs
    /\ code = GenerateQss(DefaultPalette, "default")
    /\ generatedFrom = DefaultPalette
    /\ qop = "init"
    /\ qss_editor = <<>>
    /\ color_scheme = InitialColorScheme
    /\ IdleColor
    /\ IdleWidget
    /\ IdleMore

\* _generate_qss_from_palette
GenerateQssFromPalette ==
    /\ code' = GenerateQss(current_palette, "default")
    /\ generatedFrom' = current_palette
    /\ qop' = "generate"
    /\ UNCHANGED <<current_palette, file, qss_editor, color_scheme>>
    /\ UNCHANGED <<colorVars, widgetVars, moreVars>>

\* _extract_palette_from_qss: an empty editor only gets a warning
ExtractPaletteFromQss ==
    /\ IF code = <<>>
       THEN UNCHANGED current_palette
       ELSE current_palette' = FromQss(code)
    /\ qop' = "extract"
    /\ UNCHANGED <<code, generatedFrom, file, qss_editor, color_scheme>>
    /\ UNCHANGED <<colorVars, widgetVars, moreVars>>

\* _open_theme with ThemeManager.load_qss_theme: a file that cannot be read gives
\* the default palette and an empty text
OpenTheme ==
    /\ \E readable \in BOOLEAN :
        IF readable
        THEN /\ current_palette' = FromQss(file)
             /\ code' = file
        ELSE /\ current_palette' = DefaultPalette
             /\ code' = <<>>
    /\ generatedFrom' = NoPalette
    /\ qop' = "open"
    /\ UNCHANGED <<file, qss_editor, color_scheme>>
    /\ UNCHANGED <<colorVars, widgetVars, moreVars>>

\* _load_default_theme (_new_theme, template "Default")
LoadDefaultTheme ==
    /\ current_palette' = DefaultPalette
    /\ code' = GenerateQss(DefaultPalette, "default")
    /\ generatedFrom' = DefaultPalette
    /\ qop' = "default"
    /\ UNCHANGED <<file, qss_editor, color_scheme>>
    /\ UNCHANGED <<colorVars, widgetVars, moreVars>>

\* _on_template_selected for the four named templates
OnTemplateSelected ==
    /\ \E p \in TemplatePalettes :
        /\ current_palette' = p
        /\ code' = GenerateQss(p, "default")
        /\ generatedFrom' = p
    /\ qop' = "template"
    /\ UNCHANGED <<file, qss_editor, color_scheme>>
    /\ UNCHANGED <<colorVars, widgetVars, moreVars>>

\* ThemeEditorWindow.load_theme of the standalone tool: the file text is put in
\* the editor and goes through extract_colors_from_qss
ToolLoadTheme ==
    /\ qss_editor' = file
    /\ color_scheme' = ExtractColorsFromQss(color_scheme, file)
    /\ UNCHANGED <<current_palette, code, generatedFrom, qop, file>>
    /\ UNCHANGED <<colorVars, widgetVars, moreVars>>

NextQss ==
    \/ GenerateQssFromPalette
    \/ ExtractPaletteFromQss
    \/ OpenTheme
    \/ LoadDefaultTheme
    \/ OnTemplateSelected
    \/ ToolLoadTheme

SpecQss == InitQss /\ [][NextQss]_vars

(***************************************************************************)
(* QtWidgetThemeEditor: the declarations of a widget style                 *)
(* (_parse_css_properties, _update_css_property)                           *)
(***************************************************************************)
\* style.split(sep): the pieces between the occurrences of the character sep
Split(s, sep) ==
    LET pos == {i \in 1..Len(s) : s[i] = sep}
        n == Cardinality(pos)
        cut(k) == IF k = 0 THEN 0
                  ELSE IF k = n + 1 THEN Len(s) + 1
                  ELSE CHOOSE q \in pos : Cardinality({r \in pos : r <= q}) = k
    IN  [k \in 1..(n + 1) |-> SubSeq(s, cut(k - 1) + 1, cut(k) - 1)]

LastColon(part) == Max({i \in 1..Len(part) : part[i] = ":"})

\* part.split(':', 1): the cut is at the first colon
FirstColon(part) == Min({i \in 1..Len(part) : part[i] = ":"})

\* properties[key] = value on a dict, which keeps the place of a key already there
DictSet(d, key, value) ==
    IF \E i \in DOMAIN d : d[i][1] = key
    THEN [i \in DOMAIN d |-> IF d[i][1] = key THEN <<key, value>> ELSE d[i]]
    ELSE Append(d, <<key, value>>)

\* the loop over parts of _parse_css_properties
RECURSIVE ParseParts(_, _)
ParseParts(parts, d) ==
    IF parts = <<>> THEN d
    ELSE LET part == Head(parts)
         IN  IF \E i \in DOMAIN part : part[i] = ":"
             THEN LET c == FirstColon(part)
                  IN  ParseParts(Tail(parts),
                                 DictSet(d, StrStrip(SubSeq(part, 1, c - 1)),
                                            StrStrip(SubSeq(part, c + 1, Len(part)))))
             ELSE ParseParts(Tail(parts), d)

NonEmpty(p) == p # <<>>

\* _parse_css_properties(style)
ParseCssProperties(style) ==
    IF style = <<>> THEN <<>>
    ELSE LET pieces == Split(style, ";")
             stripped == [i \in DOMAIN pieces |-> StrStrip(pieces[i])]
         IN  ParseParts(SelectSeq(stripped, NonEmpty), <<>>)

\* sep.join(items)
RECURSIVE Join(_, _)
Join(items, sep) ==
    IF items = <<>> THEN <<>>
    ELSE IF Len(items) = 1 THEN items[1]
    ELSE items[1] \o sep \o Join(Tail(items), sep)

SerializeCommas(d) == Join([i \in DOMAIN d |-> d[i][1] \o <<":", " ">> \o d[i][2]], <<",", " ">>)

\* "; ".join([f"{k}: {v}" for k, v in properties.items()])
Serialize(d) == Join([i \in DOMAIN d |-> d[i][1] \o <<":", " ">> \o d[i][2]], <<";", " ">>)

MaxSegments == 3

\* the declarations the style texts are put together from
SegmentPool ==
    { <<"a", ":", " ", "1">>,
      <<" ", "b", " ", ":", "2", " ">>,
      <<"a", ":", "3">>,
      <<>>,
      <<"j", "u", "n", "k">>,
      <<":">>,
      <<"c", ":", "d", ":", "e">> }

\* style texts as the user types them into the raw editor or a theme file holds them
StyleInputs ==
    {Join(segs, <<";">>) : segs \in UNION {[1..n -> SegmentPool] : n \in 0..MaxSegments}}
        \cup
    { <<"b", "a", "c", "k", "g", "r", "o", "u", "n", "d", "-", "c", "o", "l", "o", "r", ":", " ", "#", "2", "8", "2", "8", "2", "8", ";", " ", "c", "o", "l", "o", "r", ":", " ", "#", "E", "B", "D", "B", "B", "2", ";">>,
      <<"b", "o", "r", "d", "e", "r", ":", " ", "5", "p", "x", " ", "s", "o", "l", "i", "d", " ", "#", "D", "5", "A", "2", "0", "0", ";", " ", "c", "o", "l", "o", "r", ":", " ", "r", "e", "d">>,
      <<" ", " ">>,
      <<"\n", ";", "\t">>,
      <<"b", "o", "r", "d", "e", "r", "-", "c", "o", "l", "o", "r", ":", " ", "#", "1", "1", "1", "1", "1", "1", " ", "#", "2", "2", "2", "2", "2", "2", ";", " ", "b", ":", " ", "2">>,
      <<"b", "a", "c", "k", "g", "r", "o", "u", "n", "d", ":", " ", "#", "d", "5", "a", "2", "0", "0", "8", "0", ";", " ", "c", "o", "l", "o", "r", ":", " ", "w", "h", "i", "t", "e">> }

\* the property names of the visual controls and the values they hand over
PropNameInputs == { <<"a">>, <<"b">>, <<"b", "o", "r", "d", "e", "r">> }

PropValueInputs == { <<"9">>, <<"x", " ", "y">>, <<" ", "4", "p", "x">>, <<"1", ";", "2">>, <<>> }

\* a theme is loaded, a widget is selected and its style text is current_style
InitWidget ==
    /\ current_style \in StyleInputs
    /\ properties = <<>>
    /\ wop = "init"
    /\ edit = NoEdit
    /\ IdleColor
    /\ IdleQss
    /\ IdleMore

\* _update_visual_properties (from _on_widget_selected): the style is parsed to
\* build the property controls
UpdateVisualProperties ==
    /\ wop \in {"init", "update"}
    /\ properties' = ParseCssProperties(current_style)
    /\ wop' = IF wop = "init" THEN "parse" ELSE "reparse"
    /\ edit' = NoEdit
    /\ UNCHANGED current_style
    /\ UNCHANGED <<colorVars, qssVars, moreVars>>

\* _update_css_property(prop_name, prop_value), as _on_text_property_changed and
\* _on_dimension_changed call it
UpdateCssProperty ==
    /\ wop \in {"init", "parse"}
    /\ \E prop_name \in PropNameInputs, prop_value \in PropValueInputs :
        LET updated == DictSet(ParseCssProperties(current_style), prop_name, prop_value)
        IN  /\ properties' = updated
            /\ current_style' = Serialize(updated)
            /\ edit' = [kind |-> "text", prop |-> prop_name, value |-> prop_value]
    /\ wop' = "update"
    /\ UNCHANGED <<colorVars, qssVars, moreVars>>

\* d.get(key, "")
DictGet(d, key) ==
    IF \E i \in DOMAIN d : d[i][1] = key
    THEN d[CHOOSE i \in DOMAIN d : d[i][1] = key][2]
    ELSE <<>>

RECURSIVE ReSubHex(_, _, _)
\* re.sub(r'#[0-9A-Fa-f]{6}(?:[0-9A-Fa-f]{2})?', color, value), from index i on
ReSubHex(value, new_color, i) ==
    IF i > Len(value) THEN <<>>
    ELSE IF HexTokenAt(value, i)
    THEN new_color \o ReSubHex(value, new_color, HexTokenEnd(value, i) + 1)
    ELSE <<value[i]>> \o ReSubHex(value, new_color, i + 1)

\* the words of a property name that make _update_visual_properties treat it
\* as a colour property
ColorWords == { <<"c", "o", "l", "o", "r">>,
                <<"b", "a", "c", "k", "g", "r", "o", "u", "n", "d">>,
                <<"b", "o", "r", "d", "e", "r">> }

\* the names is_named_color is looked up in
PickerNames == {ColorNames[i] : i \in 1..12}

\* _update_visual_properties gives the property a ColorPickerButton
HasColorPicker(prop_name, prop_value) ==
    /\ \E w \in ColorWords : Contains(StrLower(prop_name), w)
    /\ Contains(prop_value, <<"#">>) \/ StrLower(prop_value) \in PickerNames
    /\ ExtractColorFromValue(prop_value) # NoValue

\* the colour the user picks
PickerColorInputs == { <<"#", "F", "F", "0", "0", "0", "0">> }

\* the value _on_color_changed hands to _update_css_property
ColorChangedValue(current_value, new_color) ==
    IF Contains(current_value, <<"#">>) THEN ReSubHex(current_value, new_color, 1)
    ELSE new_color

\* _on_color_changed(prop_name, color) from the picker of a property, with the
\* _update_css_property it ends in
OnPropertyColorChanged ==
    /\ wop \in {"init", "parse"}
    /\ \E i \in DOMAIN ParseCssProperties(current_style) : \E new_color \in PickerColorInputs :
        LET parsed == ParseCssProperties(current_style)
            prop_name == parsed[i][1]
            current_value == DictGet(parsed, prop_name)
            new_value == ColorChangedValue(current_value, new_color)
            updated == DictSet(parsed, prop_name, new_value)
        IN  /\ HasColorPicker(prop_name, parsed[i][2])
            /\ properties' = updated
            /\ current_style' = Serialize(updated)
            /\ edit' = [kind |-> "color", prop |-> prop_name, value |-> new_color]
    /\ wop' = "update"
    /\ UNCHANGED <<colorVars, qssVars, moreVars>>

NextWidget ==
    \/ UpdateVisualProperties
    \/ UpdateCssProperty
    \/ OnPropertyColorChanged

SpecWidget == InitWidget /\ [][NextWidget]_vars

(***************************************************************************)
(* Input texts of the colour operations                                    *)
(***************************************************************************)
MaxPad == 1

MaxComp == 258

RECURSIVE DecStr(_)
DecStr(n) ==
    IF n < 10 THEN <<Digits[n + 1]>>
    ELSE DecStr(n \div 10) \o <<Digits[(n % 10) + 1]>>

RECURSIVE Repeat(_, _)
Repeat(c, n) == IF n = 0 THEN <<>> ELSE <<c>> \o Repeat(c, n - 1)

Pads == {Repeat(c, n) : c \in {" ", "\n"}, n \in 0..MaxPad}

HexSample == {"0", "9", "a", "f", "A", "F"}

Hex6Bodies == {<<x, y, x, y, y, x>> : x \in HexAnyChars, y \in HexSample}

Hex3Bodies ==
    {<<x, y, x>> : x \in HexAnyChars, y \in HexSample}
        \cup {<<y, x, x>> : x \in HexAnyChars, y \in HexSample}

PaddedHex6Inputs == {l \o <<"#">> \o h \o r : l \in Pads, h \in Hex6Bodies, r \in Pads}

ShortHexInputs ==
    {<<"#">> \o h : h \in Hex3Bodies}
        \cup {l \o <<"#", x, x, x>> \o r : l \in Pads, x \in HexSample, r \in Pads}

Hex8Inputs == {<<"#">> \o h \o <<a, b>> : h \in Hex6Bodies, a \in {"8", "f"}, b \in {"0", "F"}}

SepComma == <<",">>
SepCommaSpace == <<",", " ">>
SepCommaNewline == <<",", "\n">>
SepSpace == <<" ">>
SepSpaceComma == <<" ", ",", " ">>

CommaSeps == {SepComma, SepCommaSpace, SepCommaNewline}

Seps == CommaSeps \cup {SepSpace, SepSpaceComma}

RgbText(prefix, r, g, b, sep, suffix) ==
    prefix \o <<"(">> \o r \o sep \o g \o sep \o b \o <<")">> \o suffix

RgbLower == <<"r", "g", "b">>

CompSample == {0, 9, 16, 255, 256}

AxisTriples ==
    {<<n, 0, 0>> : n \in 0..MaxComp}
        \cup {<<0, n, 0>> : n \in 0..MaxComp}
        \cup {<<0, 0, n>> : n \in 0..MaxComp}

SampleTriples == CompSample \X CompSample \X CompSample

RgbInputs ==
    {RgbText(RgbLower, DecStr(t[1]), DecStr(t[2]), DecStr(t[3]), SepComma, <<>>) :
        t \in AxisTriples}
    \cup
    {RgbText(RgbLower, DecStr(t[1]), DecStr(t[2]), DecStr(t[3]), sep, <<>>) :
        t \in SampleTriples, sep \in Seps}
    \cup
    {RgbText(p, <<"0">> \o DecStr(n), <<"7">>, DecStr(n), sep, x) :
        p \in {RgbLower, <<"R", "G", "B">>, <<"R", "g", "b">>},
        n \in {0, 255, 256}, sep \in {SepComma, SepCommaSpace, SepSpace},
        x \in {<<>>, <<"x">>, <<" ">>, <<";">>}}

NamedInputs ==
    {ColorNames[i] : i \in DOMAIN ColorNames}
        \cup {StrUpper(ColorNames[i]) : i \in DOMAIN ColorNames}
        \cup {<<" ">> \o ColorNames[i] : i \in DOMAIN ColorNames}

MalformedInputs ==
    { <<>>,
      <<" ">>,
      <<"#">>,
      <<"#", "1", "2">>,
      <<"#", "1", "2", "3", "4">>,
      <<"#", "1", "2", "3", "4", "5">>,
      <<"#", "1", "2", "3", "4", "5", "6", "7">>,
      <<"#", "G", "G", "G">>,
      <<"#", "1", "2", "G", "4", "5", "6">>,
      <<"#", "1", "2", " ", "3", "4", "5", "6">>,
      <<"1", "2", "3", "4", "5", "6">>,
      <<"a", "b", "c">>,
      <<"n", "o", "t", " ", "a", " ", "c", "o", "l", "o", "r">>,
      <<"r", "g", "b">>,
      <<"r", "g", "b", "(", ")">>,
      <<"r", "g", "b", "(", "1", ",", "2", ")">>,
      <<"r", "g", "b", "(", "1", ",", "2", ",", "3">>,
      <<"r", "g", "b", "(", ",", ",", ")">>,
      <<"r", "g", "b", " ", "(", "1", ",", "2", ",", "3", ")">>,
      <<"r", "g", "b", "(", "-", "1", ",", "2", ",", "3", ")">>,
      <<"r", "g", "b", "(", "1", ".", "5", ",", "2", ",", "3", ")">>,
      <<"r", "g", "b", "a", "(", "1", ",", "2", ",", "3", ")">>,
      <<"h", "s", "l", "(", "1", ",", "2", ",", "3", ")">>,
      <<"x", "r", "g", "b", "(", "1", ",", "2", ",", "3", ")">>,
      <<"1", "p", "x", " ", "s", "o", "l", "i", "d", " ", "#", "D", "5", "A", "2", "0", "0">> }

\* property values as the widget editor hands them to _extract_color_from_value
CompoundInputs ==
    { <<"5", "p", "x", " ", "s", "o", "l", "i", "d", " ", "#", "D", "5", "A", "2", "0", "0">>,
      <<"1", "p", "x", " ", "s", "o", "l", "i", "d", " ", "t", "r", "a", "n", "s", "p", "a", "r", "e", "n", "t">>,
      <<"6", "p", "x">>,
      <<"5", "p", "x", " ", "s", "o", "l", "i", "d", " ", "#", "d", "5", "a", "2", "0", "0">>,
      <<"#", "1", "1", "1", "1", "1", "1", " ", "#", "2", "2", "2", "2", "2", "2">>,
      <<"1", "p", "x", " ", "s", "o", "l", "i", "d", " ", "#", "D", "5", "A", "2", "0", "0", "8", "0">>,
      <<"r", "e", "d", " ", "#", "1", "2", "3", "4", "5", "6">>,
      <<"r", "e", "d", " ", "w", "h", "i", "t", "e">>,
      <<"1", "p", "x", " ", "s", "o", "l", "i", "d", " ", "d", "a", "r", "k", "g", "r", "a", "y">>,
      <<"#", "1", "2", "3", "4", "5", "6", "7">>,
      <<"b", "o", "r", "d", "e", "r", "e", "d">> }

\* colours at the luminance threshold: exactly one half, just above, just below
ThresholdInputs ==
    { <<"#", "0", "D", "A", "3", "7", "1">>,
      <<"#", "0", "D", "A", "3", "7", "2">>,
      <<"#", "0", "D", "A", "3", "7", "0">>,
      <<"#", "f", "2", "5", "c", "8", "e">> }

Inputs ==
    PaddedHex6Inputs \cup ShortHexInputs \cup Hex8Inputs \cup RgbInputs
        \cup NamedInputs \cup MalformedInputs \cup ThresholdInputs
        \cup CompoundInputs

\* the colours a ColorPickerButton is constructed with (the default argument is "#000000")
InitialColors == {Black, <<"#", "3", "4", "9", "8", "d", "b">>}

(***************************************************************************)
(* ColorPickerButton: construction and the operations that take a text     *)
(***************************************************************************)
InitColor ==
    /\ \E c \in InitialColors : color = NormalizeColor(c)
    /\ arg \in Inputs
    /\ ret = NoValue
    /\ op = "init"
    /\ warned = FALSE
    /\ emitted = FALSE
    /\ text_color = GetContrastColor(color)
    /\ IdleQss
    /\ IdleWidget
    /\ IdleMore

\* set_color(color)
SetColor ==
    /\ op = "init"
    /\ LET normalized == NormalizeColor(arg)
       IN  /\ ret' = normalized
           /\ color' = normalized
           /\ emitted' = (normalized # color)
           /\ text_color' = IF normalized # color THEN GetContrastColor(normalized) ELSE text_color
    /\ op' = "set_color"
    /\ UNCHANGED <<arg, warned>>
    /\ UNCHANGED <<qssVars, widgetVars, moreVars>>

\* the body shared by _paste_color and _enter_hex_manually once a text is there:
\* normalise, gate on _is_valid_hex, then set_color(normalized) or warn
AcceptText(text, name) ==
    LET normalized == NormalizeColor(text)
        again == NormalizeColor(normalized)
    IN  /\ ret' = normalized
        /\ IF IsValidHex(normalized)
           THEN /\ color' = again
                /\ emitted' = (again # color)
                /\ text_color' = IF again # color THEN GetContrastColor(again) ELSE text_color
                /\ warned' = FALSE
           ELSE /\ warned' = TRUE
                /\ UNCHANGED <<color, emitted, text_color>>
        /\ op' = name
        /\ UNCHANGED arg

\* _paste_color: arg is the clipboard text
PasteColor ==
    /\ op = "init"
    /\ LET text == StrStrip(arg)
       IN  IF text # <<>>
           THEN AcceptText(text, "paste")
           ELSE /\ op' = "paste"
                /\ UNCHANGED <<color, arg, ret, warned, emitted, text_color>>
    /\ UNCHANGED <<qssVars, widgetVars, moreVars>>

\* _enter_hex_manually: arg is the text of the input dialog, ok its button
EnterHexManually ==
    /\ op = "init"
    /\ \E ok \in BOOLEAN :
        IF ok /\ arg # <<>>
        THEN AcceptText(arg, "enter")
        ELSE /\ op' = "enter"
             /\ UNCHANGED <<color, arg, ret, warned, emitted, text_color>>
    /\ UNCHANGED <<qssVars, widgetVars, moreVars>>

\* TerminalTheme.normalize_hex(arg), a static method: the button is not touched
CallNormalizeHex ==
    /\ op = "init"
    /\ ret' = NormalizeHex(arg)
    /\ op' = "normalize_hex"
    /\ UNCHANGED <<color, arg, warned, emitted, text_color>>
    /\ UNCHANGED <<qssVars, widgetVars, moreVars>>

\* QtWidgetThemeEditor._extract_color_from_value(arg): None is NoValue
CallExtractColorFromValue ==
    /\ op = "init"
    /\ ret' = ExtractColorFromValue(arg)
    /\ op' = "extract_color_from_value"
    /\ UNCHANGED <<color, arg, warned, emitted, text_color>>
    /\ UNCHANGED <<qssVars, widgetVars, moreVars>>

\* bool(...): the text Python shows for the truth value
BoolText(b) == IF b THEN <<"True">> ELSE <<"False">>

\* ColorPickerButton._is_valid_hex(arg)
CallIsValidHex ==
    /\ op = "init"
    /\ ret' = BoolText(IsValidHex(arg))
    /\ op' = "is_valid_hex"
    /\ UNCHANGED <<color, arg, warned, emitted, text_color>>
    /\ UNCHANGED <<qssVars, widgetVars, moreVars>>

NextColor ==
    \/ SetColor
    \/ PasteColor
    \/ EnterHexManually
    \/ CallNormalizeHex
    \/ CallExtractColorFromValue
    \/ CallIsValidHex

SpecColor == InitColor /\ [][NextColor]_vars

(***************************************************************************)
(* TerminalTheme (modules/theme_data.py), ThemeManager.load_json_themes /  *)
(* save_json_themes (modules/theme_manager.py) and JSONTerminalEditor      *)
(* (modules/json_theme_editor.py)                                          *)
(*                                                                         *)
(* A theme is the dict asdict() gives: a function from the field names to  *)
(* the field values.  The name -> theme dict of the editor is a function   *)
(* whose domain is the set of theme names.  themes.json is NoFile, BadJson *)
(* or the name -> dict mapping json.load returns.                          *)
(***************************************************************************)
\* the colour fields of TerminalTheme, in declaration order
TerminalFields ==
    <<"background", "foreground", "cursor", "selection",
      "black", "red", "green", "yellow", "blue", "purple", "cyan", "white",
      "brightBlack", "brightRed", "brightGreen", "brightYellow",
      "brightBlue", "brightPurple", "brightCyan", "brightWhite">>

TerminalFieldSet == Range(TerminalFields)

\* hex_pattern.match(value) with hex_pattern = ^#[0-9A-Fa-f]{6}$ : '$' also
\* matches before a line break that ends the value
HexPatternMatch(value) ==
    /\ Len(value) \in {7, 8}
    /\ value[1] = "#"
    /\ \A k \in 2..7 : value[k] \in HexAnyChars
    /\ Len(value) = 8 => value[8] = "\n"

\* the loop of validate() over asdict(self).items(): (True, "") is <<TRUE>>,
\* (False, message) is <<FALSE, field_name, value>>, the two parts of the message
ValidateFields(d, fields) ==
    LET bad == {i \in DOMAIN fields : ~HexPatternMatch(d[fields[i]])}
    IN  IF bad = {} THEN <<TRUE>>
        ELSE <<FALSE, fields[Min(bad)], d[fields[Min(bad)]]>>

\* TerminalTheme.validate: the name field is skipped
TerminalValidate(theme) == ValidateFields(theme, TerminalFields)

\* the name -> dict mapping json.load returns for the file
JsonFile(data) == [kind |-> "json", data |-> data]

\* TerminalTheme(name=..., background=..., ...)
TerminalTheme(name, colors) ==
    [f \in TerminalFieldSet \cup {"name"} |-> IF f = "name" THEN name ELSE colors[f]]

\* the colours of _create_default_theme
DefaultColors ==
    [f \in TerminalFieldSet |->
        CASE f = "background" -> <<"#", "2", "8", "2", "8", "2", "8">>
          [] f = "foreground" -> <<"#", "E", "B", "D", "B", "B", "2">>
          [] f = "cursor" -> <<"#", "E", "B", "D", "B", "B", "2">>
          [] f = "selection" -> <<"#", "5", "0", "4", "9", "4", "5">>
          [] f = "black" -> <<"#", "2", "8", "2", "8", "2", "8">>
          [] f = "red" -> <<"#", "C", "C", "2", "4", "1", "D">>
          [] f = "green" -> <<"#", "9", "8", "9", "7", "1", "A">>
          [] f = "yellow" -> <<"#", "D", "7", "9", "9", "2", "1">>
          [] f = "blue" -> <<"#", "4", "5", "8", "5", "8", "8">>
          [] f = "purple" -> <<"#", "B", "1", "6", "2", "8", "6">>
          [] f = "cyan" -> <<"#", "6", "8", "9", "D", "6", "A">>
          [] f = "white" -> <<"#", "A", "8", "9", "9", "8", "4">>
          [] f = "brightBlack" -> <<"#", "9", "2", "8", "3", "7", "4">>
          [] f = "brightRed" -> <<"#", "F", "B", "4", "9", "3", "4">>
          [] f = "brightGreen" -> <<"#", "B", "8", "B", "B", "2", "6">>
          [] f = "brightYellow" -> <<"#", "F", "A", "B", "D", "2", "F">>
          [] f = "brightBlue" -> <<"#", "8", "3", "A", "5", "9", "8">>
          [] f = "brightPurple" -> <<"#", "D", "3", "8", "6", "9", "B">>
          [] f = "brightCyan" -> <<"#", "8", "E", "C", "0", "7", "C">>
          [] OTHER -> <<"#", "E", "B", "D", "B", "B", "2">>]

\* the colours of the blank theme of _create_new_theme
BlankColors ==
    [f \in TerminalFieldSet |->
        CASE f = "background" -> <<"#", "0", "0", "0", "0", "0", "0">>
          [] f = "foreground" -> <<"#", "F", "F", "F", "F", "F", "F">>
          [] f = "cursor" -> <<"#", "F", "F", "F", "F", "F", "F">>
          [] f = "selection" -> <<"#", "4", "4", "4", "4", "4", "4">>
          [] f = "black" -> <<"#", "0", "0", "0", "0", "0", "0">>
          [] f = "red" -> <<"#", "C", "C", "0", "0", "0", "0">>
          [] f = "green" -> <<"#", "0", "0", "C", "C", "0", "0">>
          [] f = "yellow" -> <<"#", "C", "C", "C", "C", "0", "0">>
          [] f = "blue" -> <<"#", "0", "0", "0", "0", "C", "C">>
          [] f = "purple" -> <<"#", "C", "C", "0", "0", "C", "C">>
          [] f = "cyan" -> <<"#", "0", "0", "C", "C", "C", "C">>
          [] f = "white" -> <<"#", "C", "C", "C", "C", "C", "C">>
          [] f = "brightBlack" -> <<"#", "6", "6", "6", "6", "6", "6">>
          [] f = "brightRed" -> <<"#", "F", "F", "0", "0", "0", "0">>
          [] f = "brightGreen" -> <<"#", "0", "0", "F", "F", "0", "0">>
          [] f = "brightYellow" -> <<"#", "F", "F", "F", "F", "0", "0">>
          [] f = "brightBlue" -> <<"#", "0", "0", "0", "0", "F", "F">>
          [] f = "brightPurple" -> <<"#", "F", "F", "0", "0", "F", "F">>
          [] f = "brightCyan" -> <<"#", "0", "0", "F", "F", "F", "F">>
          [] OTHER -> <<"#", "F", "F", "F", "F", "F", "F">>]

\* TerminalTheme.from_dict raises (cls(**data) with a missing or an unknown key)
FromDictRaises(data) == DOMAIN data # TerminalFieldSet \cup {"name"}

\* ThemeManager.load_json_themes: {} for a missing or unreadable file; an entry
\* from_dict raises on is skipped; the values are taken as they are
LoadJsonThemes(content) ==
    IF content.kind # "json"
    THEN <<>>
    ELSE [n \in {k \in DOMAIN content.data : ~FromDictRaises(content.data[k])} |->
              content.data[n]]

\* what save_json_themes writes: {name: theme.to_dict()}
ThemesDict(ths) == JsonFile([n \in DOMAIN ths |-> ths[n]])

\* sorted(self.themes.keys()) for the names of the model
NameOrder == <<"A", "B", "C", "Default">>

InNames(S) == [n \in Range(NameOrder) |-> n \in S]

SortedNames(S) == SelectSeq(NameOrder, LAMBDA n : InNames(S)[n])

\* QComboBox.findText: the 1-based position of name in items, 0 when absent
FindText(items, name) ==
    IF \E i \in DOMAIN items : items[i] = name
    THEN Min({i \in DOMAIN items : items[i] = name})
    ELSE 0

\* QComboBox.currentText(), "" when there is no current item
CurrentText(items, index) == IF index \in DOMAIN items THEN items[index] ELSE NoName

\* the properties whose picker the user changes; of the twenty pickers the
\* model keeps these, no handler reads one picker for another property
EditProps == {"background"}

\* the loop of _on_theme_selected over the pickers: picker.set_color(getattr(theme, prop))
LoadPickers(theme) == [p \in EditProps |-> NormalizeColor(theme[p])]

\* the editor fields a selection touches, with the selector's current item
\* (index, 0 for none) and the answers the user will give to the "Save before
\* switching?" boxes that are still to come
EditorState(cur, flag, pickers, index, replies) ==
    [current_theme_name |-> cur, unsaved_changes |-> flag, color_pickers |-> pickers,
     index |-> index, replies |-> replies]

\* _on_theme_selected(theme_name), run by the selector's currentTextChanged
\* signal; ths and items are the dict and the selector items at that moment.
\* On Cancel the handler calls setCurrentText(current_theme_name), which emits
\* the signal again when the current item changes.
RECURSIVE OnThemeSelected(_, _, _, _)
OnThemeSelected(ths, items, st, theme_name) ==
    IF theme_name = NoName \/ theme_name \notin DOMAIN ths
    THEN st
    ELSE LET prompt == st.unsaved_changes /\ st.current_theme_name # NoName
             reply == IF prompt THEN Head(st.replies) ELSE "none"
             asked == IF prompt THEN [st EXCEPT !.replies = Tail(@)] ELSE st
             back == FindText(items, st.current_theme_name)
         IN  IF reply = "Cancel"
             THEN IF back # 0 /\ back # st.index
                  THEN OnThemeSelected(ths, items, [asked EXCEPT !.index = back],
                                       st.current_theme_name)
                  ELSE asked
             ELSE [asked EXCEPT !.current_theme_name = theme_name,
                                !.unsaved_changes = FALSE,
                                !.color_pickers = LoadPickers(ths[theme_name])]

\* QComboBox.setCurrentIndex(index) / setCurrentText(text): the signal is
\* emitted when the current text changes
SetCurrentIndex(ths, items, st, index) ==
    IF index = st.index \/ index \notin DOMAIN items
    THEN st
    ELSE OnThemeSelected(ths, items, [st EXCEPT !.index = index], items[index])

\* QComboBox.addItem(name), items being the selector items after it: the
\* first item of an empty selector becomes current
AddItem(ths, items, st) ==
    IF Len(items) = 1 THEN SetCurrentIndex(ths, items, [st EXCEPT !.index = 0], 1) ELSE st

\* the sequence without its element at position i
RemoveAt(items, i) ==
    [k \in 1..(Len(items) - 1) |-> IF k < i THEN items[k] ELSE items[k + 1]]

\* the sequence with name put at position i
InsertAt(items, i, name) ==
    [k \in 1..(Len(items) + 1) |->
        IF k < i THEN items[k] ELSE IF k = i THEN name ELSE items[k - 1]]

\* QComboBox.removeItem(index) of the current item, rest being the items left:
\* the item that takes its place (the last one when the removed item was
\* last) becomes current, and the signal carries its text ("" when the
\* selector is left empty)
RemoveCurrentItem(ths, rest, st) ==
    LET next == IF st.index <= Len(rest) THEN st.index ELSE Len(rest)
    IN  OnThemeSelected(ths, rest, [st EXCEPT !.index = next], CurrentText(rest, next))

\* QComboBox.insertItem(index, name), items being the selector items after it:
\* an item put at or before the current one moves the current index, the
\* current text stays; the first item of an empty selector becomes current
InsertItem(ths, items, st, index) ==
    IF Len(items) = 1
    THEN SetCurrentIndex(ths, items, [st EXCEPT !.index = 0], 1)
    ELSE IF index <= st.index THEN [st EXCEPT !.index = st.index + 1] ELSE st

(***************************************************************************)
(* The terminal theme editor as a state machine                            *)
(***************************************************************************)
\* the most themes the editor holds in the model
MaxThemes == 2

NameInputs == {"B", "C"}

\* the colours the picker dialog returns (color.name().upper())
PickedColors == { <<"#", "F", "F", "0", "0", "0", "0">> }

Replies == {"Yes", "No", "Cancel"}

\* the answers to the boxes an operation can show: a box is shown only when
\* unsaved_changes is set and a theme is current when the operation starts
\* (after Yes or No unsaved_changes is clear and no further box is shown)
ReplySeqs ==
    IF unsaved_changes /\ current_theme_name # NoName
    THEN {<<r>> : r \in Replies \ {"Cancel"}} \cup {<<"Cancel", r>> : r \in Replies}
    ELSE {<<>>}

\* what QInputDialog.getText returns: (name, ok)
DialogResults == {<<n, TRUE>> : n \in NameInputs \cup {NoName}} \cup {<<NoName, FALSE>>}

WithColor(colors, f, value) == [colors EXCEPT ![f] = value]

\* the contents of config/themes/themes.json when the editor starts
FileInputs ==
    { NoFile,
      BadJson,
      JsonFile([n \in {"A"} |-> TerminalTheme("A", DefaultColors)]),
      JsonFile([n \in {"A", "B"} |->
          IF n = "A" THEN TerminalTheme("A", DefaultColors) ELSE TerminalTheme("B", BlankColors)]),
      JsonFile([n \in {"A"} |-> TerminalTheme("A", WithColor(DefaultColors, "background", <<"r", "e", "d">>))]),
      JsonFile([n \in {"A"} |-> TerminalTheme("A", WithColor(DefaultColors, "background", <<"#", "2", "8", "2", "8", "2", "8", "\n">>))]),
      JsonFile([n \in {"A"} |->
          TerminalTheme("A", WithColor(WithColor(WithColor(DefaultColors,
              "foreground", <<"#", "e", "b", "d", "b", "b", "2">>), "cursor", <<"#", "1", "2">>), "brightWhite", <<>>))]),
      JsonFile([n \in {"A", "B"} |->
          IF n = "A" THEN TerminalTheme("A", BlankColors)
          ELSE [f \in {"name", "background"} |->
                    IF f = "name" THEN "B" ELSE <<"#", "2", "8", "2", "8", "2", "8">>]]) }

\* the editor takes the fields of st
Becomes(st) ==
    /\ current_theme_name' = st.current_theme_name
    /\ unsaved_changes' = st.unsaved_changes
    /\ color_pickers' = st.color_pickers
    /\ selector_index' = st.index

Here == EditorState(current_theme_name, unsaved_changes, color_pickers, selector_index, <<>>)

HereWith(replies) == [Here EXCEPT !.replies = replies]

\* __init__: _setup_ui (twenty pickers on #000000, an empty selector) and
\* _load_themes, with _create_default_theme when nothing was loaded
InitTerminal ==
    /\ themes_json \in FileInputs
    /\ LET loaded == LoadJsonThemes(themes_json)
           ths == IF DOMAIN loaded # {} THEN loaded
                  ELSE [n \in {"Default"} |-> TerminalTheme("Default", DefaultColors)]
           items == SortedNames(DOMAIN ths)
           st0 == EditorState(NoName, FALSE, [p \in EditProps |-> Black], 0, <<>>)
           st == SetCurrentIndex(ths, items, st0, 1)
       IN  /\ themes = ths
           /\ selector_items = items
           /\ current_theme_name = st.current_theme_name
           /\ unsaved_changes = st.unsaved_changes
           /\ color_pickers = st.color_pickers
           /\ selector_index = st.index
           /\ persisted = ths
    /\ validation = NoValidation
    /\ IdleColor
    /\ IdleQss
    /\ IdleWidget
    /\ IdleThemes
    /\ IdleConverter
    /\ IdleBackup

\* the user picks another item of the theme selector
SelectTheme ==
    \E i \in DOMAIN selector_items, replies \in ReplySeqs :
        /\ i # selector_index
        /\ Becomes(SetCurrentIndex(themes, selector_items, HereWith(replies), i))
        /\ validation' = NoValidation
        /\ UNCHANGED <<themes, selector_items, themes_json, persisted>>
        /\ UNCHANGED notTermVars

\* _on_color_changed(property_name), run by the colorChanged signal of the
\* picker, which the picker emits when its colour has changed
OnColorChanged ==
    \E p \in EditProps, c \in PickedColors :
        /\ c # color_pickers[p]
        /\ color_pickers' = [color_pickers EXCEPT ![p] = c]
        /\ IF current_theme_name = NoName
           THEN UNCHANGED <<themes, unsaved_changes>>
           ELSE /\ themes' = [themes EXCEPT ![current_theme_name][p] = c]
                /\ unsaved_changes' = TRUE
        /\ validation' = NoValidation
        /\ UNCHANGED <<current_theme_name, selector_items, selector_index, themes_json,
                       persisted>>
        /\ UNCHANGED notTermVars

\* self.themes[name] = theme; addItem(name); setCurrentText(name);
\* unsaved_changes = True  (the tail of _create_new_theme and _duplicate_theme)
AddTheme(name, theme, replies) ==
    LET ths == [n \in DOMAIN themes \cup {name} |-> IF n = name THEN theme ELSE themes[n]]
        items == Append(selector_items, name)
        st1 == AddItem(ths, items, HereWith(replies))
        st2 == SetCurrentIndex(ths, items, st1, FindText(items, name))
    IN  /\ themes' = ths
        /\ selector_items' = items
        /\ Becomes([st2 EXCEPT !.unsaved_changes = TRUE])

\* _create_new_theme: the name dialog gives (name, ok)
CreateNewTheme ==
    \E <<name, ok>> \in DialogResults, replies \in ReplySeqs :
        /\ Cardinality(DOMAIN themes) < MaxThemes
        /\ IF ok /\ name # NoName /\ name \notin DOMAIN themes
           THEN AddTheme(name,
                         IF current_theme_name # NoName
                         THEN [themes[current_theme_name] EXCEPT !.name = name]
                         ELSE TerminalTheme(name, BlankColors),
                         replies)
           ELSE UNCHANGED <<themes, selector_items, current_theme_name, unsaved_changes,
                            color_pickers, selector_index>>
        /\ validation' = NoValidation
        /\ UNCHANGED <<themes_json, persisted>>
        /\ UNCHANGED notTermVars

\* _duplicate_theme
DuplicateTheme ==
    \E <<name, ok>> \in DialogResults, replies \in ReplySeqs :
        /\ Cardinality(DOMAIN themes) < MaxThemes
        /\ IF current_theme_name # NoName /\ ok /\ name # NoName /\ name \notin DOMAIN themes
           THEN AddTheme(name, [themes[current_theme_name] EXCEPT !.name = name], replies)
           ELSE UNCHANGED <<themes, selector_items, current_theme_name, unsaved_changes,
                            color_pickers, selector_index>>
        /\ validation' = NoValidation
        /\ UNCHANGED <<themes_json, persisted>>
        /\ UNCHANGED notTermVars

\* _rename_theme
RenameTheme ==
    \E <<new_name, ok>> \in DialogResults, replies \in ReplySeqs :
        /\ IF /\ current_theme_name # NoName
              /\ ok /\ new_name # NoName /\ new_name # current_theme_name
              /\ new_name \notin DOMAIN themes
           THEN LET theme == [themes[current_theme_name] EXCEPT !.name = new_name]
                    ths == [n \in (DOMAIN themes \ {current_theme_name}) \cup {new_name} |->
                                IF n = new_name THEN theme ELSE themes[n]]
                    index == selector_index
                    rest == RemoveAt(selector_items, index)
                    st1 == RemoveCurrentItem(ths, rest, HereWith(replies))
                    items == InsertAt(rest, index, new_name)
                    st2 == InsertItem(ths, items, st1, index)
                    st3 == SetCurrentIndex(ths, items, st2, index)
                IN  /\ themes' = ths
                    /\ selector_items' = items
                    /\ Becomes([st3 EXCEPT !.current_theme_name = new_name,
                                           !.unsaved_changes = TRUE])
           ELSE UNCHANGED <<themes, selector_items, current_theme_name, unsaved_changes,
                            color_pickers, selector_index>>
        /\ validation' = NoValidation
        /\ UNCHANGED <<themes_json, persisted>>
        /\ UNCHANGED notTermVars

\* _delete_theme: reply is the answer to "Are you sure ...?"
DeleteTheme ==
    \E reply \in {"Yes", "No"}, replies \in ReplySeqs :
        /\ IF current_theme_name # NoName /\ reply = "Yes"
           THEN LET ths == [n \in DOMAIN themes \ {current_theme_name} |-> themes[n]]
                    rest == RemoveAt(selector_items, selector_index)
                    st1 == RemoveCurrentItem(ths, rest, HereWith(replies))
                IN  /\ themes' = ths
                    /\ selector_items' = rest
                    /\ Becomes([st1 EXCEPT !.current_theme_name = NoName,
                                           !.unsaved_changes = TRUE])
           ELSE UNCHANGED <<themes, selector_items, current_theme_name, unsaved_changes,
                            color_pickers, selector_index>>
        /\ validation' = NoValidation
        /\ UNCHANGED <<themes_json, persisted>>
        /\ UNCHANGED notTermVars

\* _save_themes: save_json_themes(self.themes) writes themes.json.  When the
\* write raises, save_json_themes puts the backup it has just made of the file
\* back and re-raises, and _save_themes shows the error; a file that did not
\* exist has no backup and is left as the failed write left it
SaveThemes ==
    \E <<written, partial>> \in {<<TRUE, FALSE>>, <<FALSE, FALSE>>, <<FALSE, TRUE>>} :
        /\ IF written
           THEN /\ themes_json' = ThemesDict(themes)
                /\ persisted' = themes
                /\ unsaved_changes' = FALSE
           ELSE /\ themes_json' = IF themes_json = NoFile /\ partial THEN BadJson ELSE themes_json
                /\ UNCHANGED <<persisted, unsaved_changes>>
        /\ validation' = NoValidation
        /\ UNCHANGED <<themes, current_theme_name, color_pickers, selector_items,
                       selector_index>>
        /\ UNCHANGED notTermVars

\* theme.validate() on a theme of the dict
CallValidate ==
    \E n \in DOMAIN themes :
        /\ validation' = [called |-> TRUE, theme |-> themes[n],
                           result |-> TerminalValidate(themes[n])]
        /\ UNCHANGED <<themes, current_theme_name, unsaved_changes, color_pickers,
                       selector_items, selector_index, themes_json, persisted>>
        /\ UNCHANGED notTermVars

NextTerminal ==
    \/ SelectTheme
    \/ OnColorChanged
    \/ CreateNewTheme
    \/ DuplicateTheme
    \/ RenameTheme
    \/ DeleteTheme
    \/ SaveThemes
    \/ CallValidate

SpecTerminal == InitTerminal /\ [][NextTerminal]_vars

(***************************************************************************)
(* QtWidgetThemeEditor (modules/qt_widget_theme_editor.py): the themes of  *)
(* the editor and the file they are saved to.  A QtWidgetTheme holds its   *)
(* styles in a dict that its methods change in place, so the dicts live in *)
(* styles_of and a theme is the reference of its dict: two themes that     *)
(* hold the same reference share every later change.  A selector and a     *)
(* style text are opaque here and are plain strings.                       *)
(***************************************************************************)

\* the largest number of themes the dialogs are used to create
MaxQtThemes == 2

\* the largest reference the editor can need: one dict per theme
MaxRefs == MaxQtThemes + 1

\* config/qt_widget_themes/qt_themes.json, the default of ThemeManager
DefaultPath == "qt_themes.json"

\* the files the user picks in the file dialogs
Paths == {"F", DefaultPath}

\* the names typed into the name dialogs, in sorted() order with the name
\* of the theme of the file F
QtNameOrder == <<"N", "N Copy", "T">>

QtNameInputs == {"N", "N Copy"}

\* the selector chosen in widget_selector_combo
AddInputs == {"QLabel"}

\* the widgets the user picks in widget_list
SelectInputs == {"QPushButton", "QLabel"}

\* the text typed into style_edit
StyleTexts == {"color: red;"}

\* sorted(names)[0]
FirstName(names) ==
    QtNameOrder[CHOOSE i \in 1..Len(QtNameOrder) :
                    /\ QtNameOrder[i] \in names
                    /\ \A j \in 1..(i - 1) : QtNameOrder[j] \notin names]

\* QtWidgetTheme.add_widget_style(selector, style)
AddWidgetStyle(styles, selector, style) ==
    [s \in DOMAIN styles \cup {selector} |-> IF s = selector THEN style ELSE styles[s]]

\* QtWidgetTheme.remove_widget_style(selector)
RemoveWidgetStyle(styles, selector) ==
    [s \in DOMAIN styles \ {selector} |-> styles[s]]

\* QtWidgetTheme.get_widget_selectors()
GetWidgetSelectors(styles) == DOMAIN styles

\* _get_default_style(widget_selector), for the selectors of AddInputs
GetDefaultStyle(widget_selector) ==
    IF widget_selector = "QLabel"
    THEN "color: #FFFFFF; background-color: transparent;"
    ELSE IF widget_selector = "QPushButton"
    THEN "background-color: #0078D4; color: #FFFFFF; border: 1px solid #555; border-radius: 4px; padding: 6px 12px;"
    ELSE "background-color: #3C3C3C; color: #FFFFFF; border: 1px solid #555;"

\* the styles _new_theme gives a theme
NewThemeStyles ==
    AddWidgetStyle(
        AddWidgetStyle(<<>>, "QWidget", "background-color: #FFFFFF; color: #000000;"),
        "QPushButton",
        "background-color: #0078D4; color: #FFFFFF; border-radius: 4px; padding: 6px 12px;")

\* the reference of a dict created now
NewRef(h) == CHOOSE r \in 1..MaxRefs : r \notin DOMAIN h /\ \A q \in 1..(r - 1) : q \in DOMAIN h

\* a new dict holding styles
Allocate(h, styles) ==
    [ref |-> NewRef(h),
     heap |-> [r \in DOMAIN h \cup {NewRef(h)} |-> IF r = NewRef(h) THEN styles ELSE h[r]]]

\* theme.styles without a copy: the same dict
ShareStyles(h, ref) == [ref |-> ref, heap |-> h]

\* self.current_theme.styles.copy(): a new dict with the same items
CopyStyles(h, ref) == Allocate(h, h[ref])

\* the dicts no theme of ths holds are gone
Collect(h, ths) == [r \in {ths[n] : n \in DOMAIN ths} |-> h[r]]

\* the styles of the theme called n
StylesOf(ths, h, n) == h[ths[n]]

\* {name: theme.to_dict() for name, theme in themes.items()}
ThemesToDict(ths, h) == [n \in DOMAIN ths |-> h[ths[n]]]

\* load_qt_widget_themes(filepath) as the dict name -> styles
LoadQtWidgetThemes(content) ==
    IF content.kind = "json" THEN content.data ELSE <<>>

\* the dict with the key k bound to v
Bind(f, k, v) == [x \in DOMAIN f \cup {k} |-> IF x = k THEN v ELSE f[x]]

\* the dict without the keys ks
Without(f, ks) == [x \in DOMAIN f \ ks |-> f[x]]

\* the target when the argument is ignored
TargetPathDefault(filepath) == DefaultPath

\* the target of save_qt_widget_themes(themes, filepath=...)
TargetPath(filepath) == IF filepath = NoPath THEN DefaultPath ELSE filepath

\* what the file at path holds after save_qt_widget_themes: the themes when
\* the write succeeded; after a failed write the content the backup of an
\* existing file restores (the backups themselves are the subject of the
\* backup section), and nothing or a partial file when there was no file
SaveOutcomes(d, path, ths, h) ==
    {[ok |-> TRUE, disk |-> [d EXCEPT ![path] = JsonFile(ThemesToDict(ths, h))]],
     [ok |-> FALSE, disk |-> d]}
    \cup IF d[path] = NoFile
         THEN {[ok |-> FALSE, disk |-> [d EXCEPT ![path] = BadJson]]}
         ELSE {}

\* the files on disk when the editor starts
QtFileInputs ==
    {NoFile, BadJson,
     JsonFile([n \in {"T"} |-> AddWidgetStyle(<<>>, "QWidget", "color: blue;")])}

\* __init__: no theme and no tracked file; nothing is loaded
Constructed ==
    /\ qt_themes = <<>>
    /\ styles_of = <<>>
    /\ qt_current_theme_name = NoName
    /\ widget_current = ""
    /\ qt_unsaved_changes = FALSE
    /\ current_file_path = NoPath
    /\ qt_op = "init"
    /\ dialog_shown = FALSE
    /\ wrote = NoPath
    /\ tracked = NoPath
    /\ duplicate_of = <<>>

\* the editor on a machine with no theme file
InitThemes ==
    /\ Constructed
    /\ disk = [p \in Paths |-> NoFile]
    /\ IdleColor
    /\ IdleQss
    /\ IdleWidget
    /\ IdleTerminal
    /\ IdleConverter
    /\ IdleBackup

\* the editor on a machine where the file F may hold themes
InitFiles ==
    /\ Constructed
    /\ \E f \in QtFileInputs : disk = [p \in Paths |-> IF p = "F" THEN f ELSE NoFile]
    /\ IdleColor
    /\ IdleQss
    /\ IdleWidget
    /\ IdleTerminal
    /\ IdleConverter
    /\ IdleBackup

\* the user picks another theme in theme_combo: _on_theme_changed
QtSelectTheme ==
    \E theme_name \in DOMAIN qt_themes :
        /\ theme_name # qt_current_theme_name
        /\ qt_current_theme_name' = theme_name
        /\ widget_current' = ""
        /\ qt_op' = "theme_changed"
        /\ dialog_shown' = FALSE
        /\ wrote' = NoPath
        /\ UNCHANGED <<qt_themes, styles_of, qt_unsaved_changes, current_file_path, disk,
                       tracked, duplicate_of>>
        /\ UNCHANGED notThemeVars

\* the user picks a widget in widget_list: _on_widget_selected
OnWidgetSelected ==
    /\ qt_current_theme_name # NoName
    /\ \E widget_selector \in SelectInputs \cap
            GetWidgetSelectors(StylesOf(qt_themes, styles_of, qt_current_theme_name)) :
        /\ widget_current' = widget_selector
        /\ qt_op' = "widget_selected"
        /\ dialog_shown' = FALSE
        /\ wrote' = NoPath
        /\ UNCHANGED <<qt_themes, styles_of, qt_current_theme_name, qt_unsaved_changes,
                       current_file_path, disk, tracked, duplicate_of>>
        /\ UNCHANGED notThemeVars

\* _on_style_changed / _on_raw_style_changed: the text of style_edit becomes
\* the style of the selected widget
OnStyleChanged ==
    /\ qt_current_theme_name # NoName
    /\ widget_current # ""
    /\ \E new_style \in StyleTexts :
        /\ styles_of' = [styles_of EXCEPT ![qt_themes[qt_current_theme_name]] =
                            AddWidgetStyle(@, widget_current, new_style)]
        /\ qt_unsaved_changes' = TRUE
        /\ qt_op' = "style_changed"
        /\ dialog_shown' = FALSE
        /\ wrote' = NoPath
        /\ UNCHANGED <<qt_themes, qt_current_theme_name, widget_current, current_file_path,
                       disk, tracked, duplicate_of>>
        /\ UNCHANGED notThemeVars

\* _add_widget
AddWidget ==
    /\ qt_current_theme_name # NoName
    /\ \E widget_selector \in AddInputs :
        LET ref == qt_themes[qt_current_theme_name]
        IN  /\ widget_current' = widget_selector
            /\ dialog_shown' = FALSE
            /\ wrote' = NoPath
            /\ IF widget_selector \in DOMAIN styles_of[ref]
               THEN /\ qt_op' = "widget_exists"
                    /\ UNCHANGED <<styles_of, qt_unsaved_changes>>
               ELSE /\ styles_of' = [styles_of EXCEPT ![ref] =
                            AddWidgetStyle(@, widget_selector,
                                           GetDefaultStyle(widget_selector))]
                    /\ qt_unsaved_changes' = TRUE
                    /\ qt_op' = "add_widget"
            /\ UNCHANGED <<qt_themes, qt_current_theme_name, current_file_path, disk,
                           tracked, duplicate_of>>
            /\ UNCHANGED notThemeVars

\* _remove_widget
RemoveWidget ==
    /\ qt_current_theme_name # NoName
    /\ widget_current # ""
    /\ \E reply \in {"Yes", "No"} :
        /\ dialog_shown' = FALSE
        /\ wrote' = NoPath
        /\ IF reply = "Yes"
           THEN /\ styles_of' = [styles_of EXCEPT ![qt_themes[qt_current_theme_name]] =
                            RemoveWidgetStyle(@, widget_current)]
                /\ widget_current' = ""
                /\ qt_unsaved_changes' = TRUE
                /\ qt_op' = "remove_widget"
           ELSE /\ qt_op' = "remove_declined"
                /\ UNCHANGED <<styles_of, widget_current, qt_unsaved_changes>>
        /\ UNCHANGED <<qt_themes, qt_current_theme_name, current_file_path, disk,
                       tracked, duplicate_of>>
        /\ UNCHANGED notThemeVars

\* _new_theme
QtNewTheme ==
    /\ Cardinality(DOMAIN qt_themes) < MaxQtThemes
    /\ \E theme_name \in QtNameInputs :
        /\ theme_name \notin DOMAIN qt_themes
        /\ LET new == Allocate(styles_of, NewThemeStyles)
           IN  /\ styles_of' = new.heap
               /\ qt_themes' = Bind(qt_themes, theme_name, new.ref)
        /\ qt_current_theme_name' = theme_name
        /\ widget_current' = ""
        /\ qt_unsaved_changes' = TRUE
        /\ qt_op' = "new_theme"
        /\ dialog_shown' = FALSE
        /\ wrote' = NoPath
        /\ duplicate_of' = Without(duplicate_of, {theme_name})
        /\ UNCHANGED <<current_file_path, disk, tracked>>
        /\ UNCHANGED notThemeVars

\* _duplicate_theme
QtDuplicateTheme ==
    /\ qt_current_theme_name # NoName
    /\ Cardinality(DOMAIN qt_themes) < MaxQtThemes
    /\ \E new_name \in QtNameInputs :
        /\ new_name \notin DOMAIN qt_themes
        /\ LET new == CopyStyles(styles_of, qt_themes[qt_current_theme_name])
           IN  /\ styles_of' = new.heap
               /\ qt_themes' = Bind(qt_themes, new_name, new.ref)
        /\ qt_current_theme_name' = new_name
        /\ widget_current' = ""
        /\ qt_unsaved_changes' = TRUE
        /\ qt_op' = "duplicate_theme"
        /\ dialog_shown' = FALSE
        /\ wrote' = NoPath
        /\ duplicate_of' = Bind(duplicate_of, new_name, qt_current_theme_name)
        /\ UNCHANGED <<current_file_path, disk, tracked>>
        /\ UNCHANGED notThemeVars

\* the pairs of duplicate_of whose two themes are both in ths
Surviving(dup, ths) ==
    [c \in {x \in DOMAIN dup : x \in DOMAIN ths /\ dup[x] \in DOMAIN ths} |-> dup[c]]

\* _delete_theme
QtDeleteTheme ==
    /\ qt_current_theme_name # NoName
    /\ \E reply \in {"Yes", "No"} :
        /\ dialog_shown' = FALSE
        /\ wrote' = NoPath
        /\ IF reply = "Yes"
           THEN LET ths == Without(qt_themes, {qt_current_theme_name})
                IN  /\ qt_themes' = ths
                    /\ styles_of' = Collect(styles_of, ths)
                    /\ IF DOMAIN ths # {}
                       THEN /\ qt_current_theme_name' = FirstName(DOMAIN ths)
                            /\ widget_current' = ""
                       ELSE /\ qt_current_theme_name' = NoName
                            /\ UNCHANGED widget_current
                    /\ qt_unsaved_changes' = TRUE
                    /\ qt_op' = "delete_theme"
                    /\ duplicate_of' = Surviving(duplicate_of, ths)
           ELSE /\ qt_op' = "delete_declined"
                /\ UNCHANGED <<qt_themes, styles_of, qt_current_theme_name, widget_current,
                               qt_unsaved_changes, duplicate_of>>
        /\ UNCHANGED <<current_file_path, disk, tracked>>
        /\ UNCHANGED notThemeVars

\* _new_file
NewFile ==
    \E reply \in IF qt_unsaved_changes THEN {"Yes", "No"} ELSE {"Yes"} :
        /\ dialog_shown' = FALSE
        /\ wrote' = NoPath
        /\ IF reply = "No"
           THEN /\ qt_op' = "new_file_declined"
                /\ UNCHANGED <<qt_themes, styles_of, qt_current_theme_name, widget_current,
                               qt_unsaved_changes, current_file_path, tracked,
                               duplicate_of>>
           ELSE /\ qt_themes' = <<>>
                /\ styles_of' = <<>>
                /\ qt_current_theme_name' = NoName
                /\ current_file_path' = NoPath
                /\ qt_unsaved_changes' = FALSE
                /\ widget_current' = ""
                /\ qt_op' = "new_file"
                /\ tracked' = NoPath
                /\ duplicate_of' = <<>>
        /\ UNCHANGED disk
        /\ UNCHANGED notThemeVars

\* _save_themes
QtSaveThemes ==
    \E filename \in IF current_file_path = NoPath THEN Paths \cup {NoPath} ELSE {NoPath} :
        /\ dialog_shown' = (current_file_path = NoPath)
        /\ IF current_file_path = NoPath /\ filename = NoPath
           THEN /\ qt_op' = "save_cancelled"
                /\ wrote' = NoPath
                /\ UNCHANGED <<current_file_path, disk, qt_unsaved_changes, tracked>>
           ELSE LET path == IF current_file_path = NoPath THEN filename
                            ELSE current_file_path
                IN  /\ current_file_path' = path
                    /\ tracked' = IF current_file_path = NoPath THEN filename ELSE tracked
                    /\ wrote' = TargetPath(path)
                    /\ \E out \in SaveOutcomes(disk, TargetPath(path), qt_themes,
                                               styles_of) :
                        /\ disk' = out.disk
                        /\ qt_unsaved_changes' = IF out.ok THEN FALSE
                                                 ELSE qt_unsaved_changes
                        /\ qt_op' = IF out.ok THEN "save" ELSE "save_failed"
        /\ UNCHANGED <<qt_themes, styles_of, qt_current_theme_name, widget_current,
                       duplicate_of>>
        /\ UNCHANGED notThemeVars

\* _save_as
SaveAs ==
    \E filename \in Paths \cup {NoPath} :
        /\ dialog_shown' = TRUE
        /\ IF filename = NoPath
           THEN /\ qt_op' = "save_as_cancelled"
                /\ wrote' = NoPath
                /\ UNCHANGED <<current_file_path, disk, qt_unsaved_changes, tracked>>
           ELSE /\ current_file_path' = filename
                /\ tracked' = filename
                /\ wrote' = TargetPath(filename)
                /\ \E out \in SaveOutcomes(disk, TargetPath(filename), qt_themes,
                                           styles_of) :
                    /\ disk' = out.disk
                    /\ qt_unsaved_changes' = IF out.ok THEN FALSE ELSE qt_unsaved_changes
                    /\ qt_op' = IF out.ok THEN "save_as" ELSE "save_as_failed"
        /\ UNCHANGED <<qt_themes, styles_of, qt_current_theme_name, widget_current,
                       duplicate_of>>
        /\ UNCHANGED notThemeVars

RECURSIVE AllocateAll(_, _, _)
\* QtWidgetTheme.from_dict for each theme of the loaded dict: one new dict each
AllocateAll(loaded, ths, h) ==
    IF DOMAIN loaded \subseteq DOMAIN ths THEN [themes |-> ths, heap |-> h]
    ELSE LET n == FirstName(DOMAIN loaded \ DOMAIN ths)
             new == Allocate(h, loaded[n])
         IN  AllocateAll(loaded, Bind(ths, n, new.ref), new.heap)

\* _load_from_file
LoadFromFile ==
    \E filename \in Paths \cup {NoPath} :
        /\ dialog_shown' = TRUE
        /\ wrote' = NoPath
        /\ IF filename = NoPath
           THEN /\ qt_op' = "load_cancelled"
                /\ UNCHANGED <<qt_themes, styles_of, qt_current_theme_name, widget_current,
                               qt_unsaved_changes, current_file_path, tracked,
                               duplicate_of>>
           ELSE LET loaded_themes == LoadQtWidgetThemes(disk[filename])
                    new == AllocateAll(loaded_themes, <<>>, <<>>)
                IN  IF DOMAIN loaded_themes = {}
                    THEN /\ qt_op' = "load_empty"
                         /\ UNCHANGED <<qt_themes, styles_of, qt_current_theme_name,
                                        widget_current, qt_unsaved_changes,
                                        current_file_path, tracked, duplicate_of>>
                    ELSE /\ qt_themes' = new.themes
                         /\ styles_of' = new.heap
                         /\ current_file_path' = filename
                         /\ qt_current_theme_name' = FirstName(DOMAIN new.themes)
                         /\ widget_current' = ""
                         /\ qt_unsaved_changes' = FALSE
                         /\ qt_op' = "load"
                         /\ tracked' = filename
                         /\ duplicate_of' = <<>>
        /\ UNCHANGED disk
        /\ UNCHANGED notThemeVars

\* the themes of the editor and their widgets
NextThemes ==
    \/ QtSelectTheme
    \/ OnWidgetSelected
    \/ OnStyleChanged
    \/ AddWidget
    \/ RemoveWidget
    \/ QtNewTheme
    \/ QtDuplicateTheme
    \/ QtDeleteTheme

\* the themes of the editor and the file they are kept in
NextFiles ==
    \/ QtNewTheme
    \/ QtDeleteTheme
    \/ NewFile
    \/ QtSaveThemes
    \/ SaveAs
    \/ LoadFromFile

SpecThemes == InitThemes /\ [][NextThemes]_vars

SpecFiles == InitFiles /\ [][NextFiles]_vars

(***************************************************************************)
(* ConverterUI (modules/converter_ui.py): Terminal JSON -> QSS.  The       *)
(* ThemeConverter it calls maps the 20 terminal colours to the 8 palette   *)
(* roles and hands the palette to QSSPalette.generate_qss.                 *)
(***************************************************************************)

\* ThemeConverter.terminal_to_palette: the fixed mapping of the roles, each
\* colour normalised before use
TerminalToPalette(theme) ==
    [background |-> NormalizeColor(theme["background"]),
     foreground |-> NormalizeColor(theme["foreground"]),
     primary |-> NormalizeColor(theme["blue"]),
     secondary |-> NormalizeColor(theme["cyan"]),
     border |-> NormalizeColor(theme["brightBlack"]),
     hover |-> NormalizeColor(theme["brightBlack"]),
     selected |-> NormalizeColor(theme["blue"]),
     disabled |-> NormalizeColor(theme["brightBlack"])]

\* ThemeConverter.terminal_to_qss: the palette and its stylesheet
TerminalToQss(theme, theme_name) ==
    [palette |-> TerminalToPalette(theme),
     qss_code |-> GenerateQss(TerminalToPalette(theme), "default")]

\* the values the themes of the files give the five colours that are mapped
BackgroundInputs ==
    {<<"#", "2", "8", "2", "8", "2", "8">>, <<" ", "#", "1", "d", "2", "0", "2", "1", " ">>, <<"r", "e", "d">>}

ForegroundInputs ==
    {<<"#", "E", "B", "D", "B", "B", "2">>, <<"#", "e", "b", "d", "b", "b", "2">>, <<"#", "f", "f", "f">>}

BlueInputs ==
    {<<"#", "4", "5", "8", "5", "8", "8">>, <<"r", "g", "b", "(", "6", "9", ",", " ", "1", "3", "3", ",", " ", "1", "3", "6", ")">>, <<"#", "4", "5", "8", "5", "8">>}

BrightBlackInputs ==
    {<<"#", "9", "2", "8", "3", "7", "4">>, <<"#", "9", "2", "8", "3", "7", "4", "8", "0">>}

\* the colours of the default theme with four of them replaced
ConvColors(bg, fg, blue, brightBlack) ==
    [f \in TerminalFieldSet |->
        CASE f = "background" -> bg
          [] f = "foreground" -> fg
          [] f = "blue" -> blue
          [] f = "brightBlack" -> brightBlack
          [] OTHER -> DefaultColors[f]]

\* config/themes/themes.json when the converter starts: no file, or a theme A
ConvFileInputs ==
    {NoFile}
    \cup {JsonFile([n \in {"A"} |-> TerminalTheme("A", ConvColors(bg, fg, blue, bb))]) :
            bg \in BackgroundInputs, fg \in ForegroundInputs, blue \in BlueInputs,
            bb \in BrightBlackInputs}

\* the file the user loads into the converter: the default theme under the name B
ConvLoadInputs == {JsonFile([n \in {"B"} |-> TerminalTheme("B", DefaultColors)])}

\* the first item of source_theme_combo after _update_source_theme_list
FirstSource(ths) == IF DOMAIN ths = {} THEN NoName ELSE SortedNames(DOMAIN ths)[1]

\* __init__: _setup_ui and _load_available_themes
InitConvert ==
    /\ \E content \in ConvFileInputs :
        /\ terminal_themes = LoadJsonThemes(content)
        /\ source_theme_name = FirstSource(LoadJsonThemes(content))
    /\ output_preview = <<>>
    /\ conv_op = "init"
    /\ IdleColor
    /\ IdleQss
    /\ IdleWidget
    /\ IdleTerminal
    /\ IdleThemes
    /\ IdleBackup

\* _load_from_file with the source format Terminal JSON
ConvLoadFromFile ==
    \E content \in ConvLoadInputs :
        LET ths == LoadJsonThemes(content)
            merged == [n \in DOMAIN terminal_themes \cup DOMAIN ths |->
                            IF n \in DOMAIN ths THEN ths[n] ELSE terminal_themes[n]]
        IN  /\ terminal_themes' = merged
            /\ source_theme_name' = FirstSource(merged)
            /\ conv_op' = "load"
            /\ UNCHANGED output_preview
            /\ UNCHANGED notConvVars

\* the user picks another theme in source_theme_combo
ConvSelectSource ==
    \E n \in DOMAIN terminal_themes :
        /\ n # source_theme_name
        /\ source_theme_name' = n
        /\ conv_op' = "select"
        /\ UNCHANGED <<terminal_themes, output_preview>>
        /\ UNCHANGED notConvVars

\* _convert_theme with Terminal JSON as source and QSS as target
ConvertTheme ==
    /\ IF source_theme_name = NoName
       THEN /\ conv_op' = "no_theme"
            /\ UNCHANGED output_preview
       ELSE LET terminal_theme == terminal_themes[source_theme_name]
                result == TerminalToQss(terminal_theme, "Converted Theme")
            IN  /\ output_preview' = result.qss_code
                /\ conv_op' = "convert"
    /\ UNCHANGED <<terminal_themes, source_theme_name>>
    /\ UNCHANGED notConvVars

NextConvert ==
    \/ ConvLoadFromFile
    \/ ConvSelectSource
    \/ ConvertTheme

SpecConvert == InitConvert /\ [][NextConvert]_vars

(***************************************************************************)
(* ThemeManager (modules/theme_manager.py): the four save methods with     *)
(* backup.  Each makes a backup of an existing target with                 *)
(* _create_backup, writes the target and, when the write raises, calls     *)
(* _restore_backup and re-raises.  All backups live in one backup_dir      *)
(* under the name <file name>.backup.<second>; shutil.copy2 gives a copy   *)
(* the mtime of its source.  The write is the only step that fails here.   *)
(***************************************************************************)

\* keep_count of _cleanup_old_backups
KeepCount == 5

\* the value of the clock after which no save is started
MaxClock == 8

\* two files of the same file name in two directories
BackupPaths == {"A/x.json", "B/x.json"}

\* a path that holds no file
Absent == [exists |-> FALSE, content |-> <<"", 0>>, mtime |-> 0]

\* a file with this content, last modified at mtime
FileOf(content, mtime) == [exists |-> TRUE, content |-> content, mtime |-> mtime]

\* shutil.copy2(filepath, backup_path): content and mtime of the source under
\* the name of this second, replacing a backup of the same name
CreateBackupFile(bk, f, sec, n) ==
    [t \in DOMAIN bk \cup {sec} |->
        IF t = sec THEN [content |-> f.content, mtime |-> f.mtime, created |-> n]
        ELSE bk[t]]

\* the sets of backups sorted(..., key=st_mtime, reverse=True)[:keep_count] can
\* be: backups of equal mtime come in the order glob yields them
KeepSets(bk) ==
    {K \in SUBSET DOMAIN bk :
        /\ Cardinality(K) = Min({KeepCount, Cardinality(DOMAIN bk)})
        /\ \A k \in K : \A d \in DOMAIN bk \ K : bk[k].mtime >= bk[d].mtime}

\* _cleanup_old_backups(filename): what can be left of the backups
CleanupOldBackups(bk) == {[t \in K |-> bk[t]] : K \in KeepSets(bk)}

\* the backups that can be backups[0] of _restore_backup
MostRecentBackups(bk) ==
    {t \in DOMAIN bk : \A u \in DOMAIN bk : bk[t].mtime >= bk[u].mtime}

\* _restore_backup(filepath): what the target can hold afterwards
RestoreBackup(f, bk) ==
    IF DOMAIN bk = {} THEN {f}
    ELSE {FileOf(bk[t].content, bk[t].mtime) : t \in MostRecentBackups(bk)}

\* what a write that raises leaves of the target before the restore: a
\* truncated or partial file, or no file when there was none and open() failed
FailedWrite(f, n) ==
    {FileOf(<<"partial", n>>, n)} \cup IF f.exists THEN {} ELSE {Absent}

\* the creation numbers of the backups that were made and not overwritten,
\* after a backup was written under the name of the second sec
MadeAfter(bk, sec, n) ==
    (made \ {bk[t].created : t \in DOMAIN bk \cap {sec}}) \cup {n}

\* two theme files, one modified before the other, B/x.json possibly missing
InitBackup ==
    /\ \E older \in BackupPaths : \E present \in BOOLEAN :
        files = [p \in BackupPaths |->
                    IF p = "B/x.json" /\ ~present THEN Absent
                    ELSE FileOf(<<p, 0>>, IF p = older THEN 1 ELSE 2)]
    /\ backups = <<>>
    /\ now = 2
    /\ second = 0
    /\ bop = "init"
    /\ target = NoPath
    /\ before = Absent
    /\ made = {}
    /\ IdleColor
    /\ IdleQss
    /\ IdleWidget
    /\ IdleTerminal
    /\ IdleThemes
    /\ IdleConverter

\* save_json_themes / save_qss_theme / save_ctk_theme / save_qt_widget_themes
\* with backup=True on the file at path
SaveWithBackup(path, sec, fails) ==
    LET n == now + 1
        f == files[path]
        copied == CreateBackupFile(backups, f, sec, n)
    IN  /\ now' = n
        /\ second' = sec
        /\ target' = path
        /\ before' = f
        /\ made' = IF f.exists THEN MadeAfter(backups, sec, n) ELSE made
        /\ \E kept \in IF f.exists THEN CleanupOldBackups(copied) ELSE {backups} :
            /\ backups' = kept
            /\ IF fails
               THEN /\ \E partial \in FailedWrite(f, n) :
                        \E restored \in RestoreBackup(partial, kept) :
                            files' = [files EXCEPT ![path] = restored]
                    /\ bop' = "save_failed"
               ELSE /\ files' = [files EXCEPT ![path] = FileOf(<<path, n>>, n)]
                    /\ bop' = "saved"
        /\ UNCHANGED notBackupVars

\* a save whose write succeeds
SaveSucceeds ==
    /\ now < MaxClock
    /\ \E path \in BackupPaths : \E tick \in {0, 1} :
            SaveWithBackup(path, second + tick, FALSE)

\* a save whose write raises; the error is re-raised to the caller
SaveRaises ==
    /\ now < MaxClock
    /\ \E path \in BackupPaths : \E tick \in {0, 1} :
            SaveWithBackup(path, second + tick, TRUE)

NextBackup ==
    \/ SaveSucceeds
    \/ SaveRaises

SpecBackup == InitBackup /\ [][NextBackup]_vars

\* ColorPickerButton._normalize_color returned ret for the text arg
NormalizedByButton == op \in {"set_color", "paste", "enter"} /\ ret # NoValue

\* TerminalTheme.normalize_hex returned ret for the text arg
NormalizedByTheme == op = "normalize_hex"

\* one of the two normalisers returned ret for the text arg
Normalized == NormalizedByButton \/ NormalizedByTheme

(***************************************************************************)
(* The notations of a colour text, written from their grammar (not from    *)
(* the regular expressions of the code)                                    *)
(***************************************************************************)
\* s is '#' and exactly n hex digits of either case, with optional whitespace around
IsPaddedHex(s, n) ==
    \E h \in 1..Len(s) :
        /\ s[h] = "#"
        /\ h + n <= Len(s)
        /\ \A k \in 1..Len(s) :
            IF k < h \/ k > h + n THEN s[k] \in Whitespace
            ELSE k = h \/ s[k] \in HexAnyChars

HashPos(s) == CHOOSE h \in 1..Len(s) : s[h] = "#"

\* the '#' and the n digits after it, each letter in upper case
PaddedHexUpper(s, n) == [k \in 1..(n + 1) |-> UpperChar(s[HashPos(s) + k - 1])]

\* the k-th digit after the '#', in upper case
Nibble(s, k) == UpperChar(s[HashPos(s) + k])

\* s is  rgb(<digits><sep><digits><sep><digits>)  and nothing else
RgbShape(s, sep) ==
    LET n == Len(sep)
        e1 == RunEnd(s, 5, DigitChars)
        a2 == e1 + n
        e2 == RunEnd(s, a2, DigitChars)
        a3 == e2 + n
        e3 == RunEnd(s, a3, DigitChars)
    IN  /\ Len(s) >= 4
        /\ SubSeq(s, 1, 4) = <<"r", "g", "b", "(">>
        /\ e1 > 5 /\ e1 + n - 1 <= Len(s) /\ SubSeq(s, e1, e1 + n - 1) = sep
        /\ e2 > a2 /\ e2 + n - 1 <= Len(s) /\ SubSeq(s, e2, e2 + n - 1) = sep
        /\ e3 > a3 /\ e3 = Len(s) /\ s[e3] = ")"

\* the three components of such a text, as numbers
RgbComps(s, sep) ==
    LET n == Len(sep)
        e1 == RunEnd(s, 5, DigitChars)
        e2 == RunEnd(s, e1 + n, DigitChars)
        e3 == RunEnd(s, e2 + n, DigitChars)
    IN  <<ParseInt(SubSeq(s, 5, e1 - 1)),
          ParseInt(SubSeq(s, e1 + n, e2 - 1)),
          ParseInt(SubSeq(s, e2 + n, e3 - 1))>>

TwoHex(n) == <<HexDigitChar(n \div 16), HexDigitChar(n % 16)>>

\* rgb(r,g,b) with r, g, b in 0..255 and the separator sep gives #RRGGBB
RgbGivesHex(sep) ==
    (Normalized /\ RgbShape(arg, sep) /\ \A i \in 1..3 : RgbComps(arg, sep)[i] <= 255)
        => ret = <<"#">> \o TwoHex(RgbComps(arg, sep)[1])
                         \o TwoHex(RgbComps(arg, sep)[2])
                         \o TwoHex(RgbComps(arg, sep)[3])

\* the text is rgb( ... ) with three digit groups separated by any run of commas
\* and whitespace, in either letter case, and nothing after the ')'
IsRgbNotation(s) ==
    LET l == StrLower(s)
        seps == Whitespace \cup {","}
        e1 == RunEnd(l, 5, DigitChars)
        a2 == RunEnd(l, e1, seps)
        e2 == RunEnd(l, a2, DigitChars)
        a3 == RunEnd(l, e2, seps)
        e3 == RunEnd(l, a3, DigitChars)
    IN  /\ Len(l) >= 4
        /\ SubSeq(l, 1, 4) = <<"r", "g", "b", "(">>
        /\ e1 > 5 /\ a2 > e1 /\ e2 > a2 /\ a3 > e2 /\ e3 > a3
        /\ e3 = Len(l) /\ l[e3] = ")"

\* the text is a name of the named-colour set, in either letter case
ColorNameSet == {ColorNames[i] : i \in DOMAIN ColorNames}

IsColorName(s) == Len(s) <= 11 /\ StrLower(s) \in ColorNameSet

NameIndex(s) == Min({i \in DOMAIN ColorNames : ColorNames[i] = StrLower(s)})

\* the text, once trimmed, is in none of the notations #RGB, #RRGGBB, #RRGGBBAA,
\* rgb(r,g,b), named colour
InNoNotation(s) ==
    LET t == StrStrip(s)
    IN  /\ ~IsPaddedHex(t, 3)
        /\ ~IsPaddedHex(t, 6)
        /\ ~IsPaddedHex(t, 8)
        /\ ~IsRgbNotation(t)
        /\ ~IsColorName(t)

(***************************************************************************)
(* Claims about normalisation, checked under SpecColor                     *)
(***************************************************************************)

\* C3: whatever text _normalize_color is given, the value it returns is accepted
\* by _is_valid_hex ('#' and exactly six hex digits), the rgb() branch included.
C3_NormalizeReturnsValidHex == NormalizedByButton => IsValidHex(ret)

\* C4: for a text in none of the supported notations _normalize_color returns
\* exactly #000000.
C4_MalformedGivesBlack == (NormalizedByButton /\ InNoNotation(arg)) => ret = Black

\* C5: normalising the value a normaliser returned gives that value again
\* (normalize(normalize(s)) = normalize(s)), for both normalisers.
C5_NormalizeIdempotent ==
    /\ NormalizedByButton => NormalizeColor(ret) = ret
    /\ NormalizedByTheme => NormalizeHex(ret) = ret

C8_RgbAnySeparator ==
    /\ RgbGivesHex(SepComma)
    /\ RgbGivesHex(SepCommaSpace)
    /\ RgbGivesHex(SepSpace)
    /\ RgbGivesHex(SepSpaceComma)

\* C8 as amended: the same result, for components separated by commas, each comma
\* optionally followed by whitespace.
C8_RgbCommaSeparated ==
    /\ RgbGivesHex(SepComma)
    /\ RgbGivesHex(SepCommaSpace)
    /\ RgbGivesHex(SepCommaNewline)

C8_Witness ==
    /\ op = "paste"
    /\ arg = RgbText(RgbLower, <<"9">>, <<"2", "5", "5">>, <<"1", "6">>, SepCommaSpace, <<>>)
    /\ ret = <<"#", "0", "9", "F", "F", "1", "0">>
    /\ color = ret

\* C9: a text that is '#' and exactly six hex digits of either case, optionally
\* surrounded by whitespace, normalises to the '#' and the six digits in upper case.
C9_Hex6Uppercased ==
    (Normalized /\ IsPaddedHex(arg, 6)) => ret = PaddedHexUpper(arg, 6)

C9_Witness ==
    /\ op = "set_color"
    /\ IsPaddedHex(arg, 6)
    /\ arg[1] \in Whitespace
    /\ \E k \in 1..Len(arg) : arg[k] \in {"a", "b", "c", "d", "e", "f"}
    /\ ret = PaddedHexUpper(arg, 6)
    /\ color = ret

\* C10: the shorthand #abc, in either letter case, normalises to the six-digit
\* upper-case colour with each nibble doubled: #AABBCC.
C10_ShortHexDoubled ==
    (Normalized /\ IsPaddedHex(arg, 3)) =>
        ret = <<"#", Nibble(arg, 1), Nibble(arg, 1), Nibble(arg, 2), Nibble(arg, 2),
                Nibble(arg, 3), Nibble(arg, 3)>>

C10_Witness ==
    /\ op = "set_color"
    /\ arg = <<"#", "a", "9", "a">>
    /\ ret = <<"#", "A", "A", "9", "9", "A", "A">>
    /\ color = ret


\* s is '#' and exactly six hex digits, in either case
IsHex6AnyCase(s) ==
    /\ Len(s) = 7
    /\ s[1] = "#"
    /\ \A k \in 2..7 : s[k] \in HexAnyChars

\* s is '#' and exactly six digits out of 0-9 and A-F, possibly followed by one
\* line break
IsHex6UpperLine(s) ==
    /\ Len(s) \in {7, 8}
    /\ s[1] = "#"
    /\ \A k \in 2..7 : s[k] \in HexUpperChars
    /\ Len(s) = 8 => s[8] = "\n"

\* C11 as stated: is_valid_hex(s) is true exactly when s is '#' followed by six
\* hex digits, lowercase a-f included
C11_ValidHexAnyCase ==
    op = "is_valid_hex" => (ret = BoolText(TRUE) <=> IsHex6AnyCase(arg))

\* C11: is_valid_hex(s) is true exactly when s is '#' followed by six digits out
\* of 0-9 and uppercase A-F (one trailing line break is tolerated); a lowercase
\* digit makes it false
C11_ValidHexUppercaseOnly ==
    op = "is_valid_hex" => (ret = BoolText(TRUE) <=> IsHex6UpperLine(arg))

\* is_valid_hex has refused a six-digit colour written with a lowercase digit
C11_Witness ==
    /\ op = "is_valid_hex"
    /\ IsHex6AnyCase(arg)
    /\ \E k \in 2..7 : arg[k] \in Range(LowerLetters)
    /\ ret = BoolText(FALSE)

\* the value of the two hex digits of channel k (1 red, 2 green, 3 blue) of a
\* canonical colour
Channel(c, k) ==
    LET hexdigits == <<"0", "1", "2", "3", "4", "5", "6", "7", "8", "9", "A", "B", "C", "D", "E", "F">>
        val(ch) == (CHOOSE i \in 1..16 : hexdigits[i] = ch) - 1
    IN  16 * val(c[2 * k]) + val(c[2 * k + 1])

\* ten thousand times 0.2126*R + 0.7152*G + 0.0722*B
Luminance10000(c) == 2126 * Channel(c, 1) + 7152 * Channel(c, 2) + 722 * Channel(c, 3)

\* the button shows a canonical colour
ShowsCanonical == op # "idle" /\ Len(color) = 7 /\ color[1] = "#" /\ \A k \in 2..7 : color[k] \in HexUpperChars

\* C12: for a canonical colour the contrast text colour is black when
\* (0.2126*R + 0.7152*G + 0.0722*B)/255 > 0.5 and white otherwise; #000000
\* gives white and #FFFFFF gives black
C12_ContrastByLuminance ==
    ShowsCanonical =>
        /\ text_color = IF Luminance10000(color) > 5000 * 255 THEN Black ELSE White
        /\ color = Black => text_color = White
        /\ color = White => text_color = Black

\* a colour whose luminance is exactly one half was set and got white text, and
\* so was one just above it, with black text
C12_Witness ==
    /\ ShowsCanonical
    /\ op = "set_color"
    /\ emitted
    /\ \/ Luminance10000(color) = 5000 * 255 /\ text_color = White
       \/ Luminance10000(color) = 5000 * 255 + 722 /\ text_color = Black

(***************************************************************************)
(* Claims about generation and extraction of stylesheets                   *)
(***************************************************************************)
PairwiseDistinct(p) == \A f, g \in Fields : f # g => p[f] # p[g]

Canonical(p) == \A f \in Fields : IsHashHex(p[f], 6)

RoundTripFields == {"background", "foreground", "primary", "hover", "selected", "border"}

\* the text in the editor was generated from a palette of eight different
\* canonical colours and the palette was then extracted from it again
RoundTripDone ==
    /\ qop = "extract"
    /\ generatedFrom # NoPalette
    /\ PairwiseDistinct(generatedFrom)
    /\ Canonical(generatedFrom)
    /\ code = GenerateQss(generatedFrom, "default")

\* C1: for a palette of eight pairwise different canonical colours, extracting
\* the palette from the generated stylesheet gives back background, foreground,
\* primary, hover, selected and border
C1_RoundTripRecovers ==
    RoundTripDone => \A f \in RoundTripFields : current_palette[f] = generatedFrom[f]

\* the rules of from_qss that look inside a block
BlockRules ==
    { [field |-> "background", name |-> <<"QWidget">>, prop |-> <<"background", "color">>],
      [field |-> "foreground", name |-> <<"QWidget">>, prop |-> <<"color">>],
      [field |-> "primary", name |-> <<"QPushButton">>, prop |-> <<"background", "color">>],
      [field |-> "hover", name |-> <<":hover">>, prop |-> <<"background", "color">>],
      [field |-> "selected", name |-> <<"::item", ":selected">>, prop |-> <<"background", "color">>] }

\* the blocks of the text that match a rule, by position
RuleHits(text, r) ==
    {i \in DOMAIN text :
        /\ SelectorMatches(text[i], r.name)
        /\ \E j \in DOMAIN text[i].body : DeclMatches(text[i].body[j], r.prop)}

\* the colour a matching block declares for the rule: its last such declaration
BlockColor(b, r) ==
    LET J == {k \in DOMAIN b.body : DeclMatches(b.body[k], r.prop)}
    IN  StrUpper(SubSeq(b.body[Max(J)].val[1], 1, 7))

\* the palette on screen was extracted from the text in the editor, and the
\* text holds at least one standalone six-digit colour
Extracted ==
    /\ qop \in {"extract", "open"}
    /\ code # <<>>
    /\ HasColors(code)

ToolFirstBackground(text) ==
    LET hits == {i \in DOMAIN text :
                    \E j \in DOMAIN text[i].body : DeclMatches(text[i].body[j], <<"background", "color">>)}
        b == text[Min(hits)].body
        j == Min({k \in DOMAIN b : DeclMatches(b[k], <<"background", "color">>)})
    IN  IF hits = {} THEN NoMatch ELSE SubSeq(b[j].val[1], 1, 7)

FromQssDone == qop = "open" \/ (qop = "extract" /\ code # <<>>)

\* the value tokens of a text
ValueTokens(text) ==
    UNION {UNION {{text[i].body[j].val[k] : k \in DOMAIN text[i].body[j].val} :
                    j \in DOMAIN text[i].body} : i \in DOMAIN text}

\* no value of the text is a '#' with exactly six hex digits
NoSixDigitColour(text) == \A tok \in ValueTokens(text) : ~IsHex6AnyCase(tok)

DocumentedDefaults ==
    [background |-> <<"#", "F", "F", "F", "F", "F", "F">>,
     foreground |-> <<"#", "0", "0", "0", "0", "0", "0">>,
     primary |-> <<"#", "0", "0", "7", "8", "D", "4">>,
     secondary |-> <<"#", "6", "C", "7", "5", "7", "D">>,
     border |-> <<"#", "C", "C", "C", "C", "C", "C">>,
     hover |-> <<"#", "E", "5", "E", "5", "E", "5">>,
     selected |-> <<"#", "0", "0", "7", "8", "D", "4">>,
     disabled |-> <<"#", "9", "9", "9", "9", "9", "9">>]

\* C13: extraction from a text without any six-digit hex colour (the empty text
\* included) returns the default palette #FFFFFF, #000000, #0078D4, #6C757D,
\* #CCCCCC, #E5E5E5, #0078D4, #999999
C13_NoColourGivesDefaults ==
    (FromQssDone /\ NoSixDigitColour(code)) => current_palette = DocumentedDefaults

\* a text with blocks but without a six-digit colour was opened
C13_Witness ==
    /\ qop = "open"
    /\ code = file
    /\ Len(code) >= 1
    /\ \E i \in DOMAIN code : SelectorMatches(code[i], <<"::item", ":selected">>)
    /\ NoSixDigitColour(code)
    /\ current_palette = DocumentedDefaults

\* the border rule occurs in the text: a declaration whose property name holds
\* "border" and whose value starts with a six-digit colour
BorderRuleOccurs(text) ==
    \E i \in DOMAIN text : \E j \in DOMAIN text[i].body : BorderDeclMatches(text[i].body[j])

\* C14: extraction always returns a palette with all eight fields filled, and a
\* field whose rule does not occur in the text keeps its default whatever the
\* other rules matched
C14_RulesIndependent ==
    FromQssDone =>
        /\ DOMAIN current_palette = Fields
        /\ \A f \in Fields : IsHex6AnyCase(current_palette[f])
        /\ \A r \in BlockRules :
            RuleHits(code, r) = {} => current_palette[r.field] = DocumentedDefaults[r.field]
        /\ ~BorderRuleOccurs(code) => current_palette.border = DocumentedDefaults.border

\* one rule matched and changed its field while another rule did not occur and
\* its field stayed at the default
C14_Witness ==
    /\ FromQssDone
    /\ \E r, q \in BlockRules :
        /\ RuleHits(code, r) # {}
        /\ current_palette[r.field] # DocumentedDefaults[r.field]
        /\ RuleHits(code, q) = {}
        /\ current_palette[q.field] = DocumentedDefaults[q.field]

\* a declaration of the property named exactly "color" with a six-digit colour
IsColorDecl(d) == d.prop = <<"color">> /\ d.val # <<>> /\ StartsWithHex6(d.val[1])

\* no QWidget block of the text declares "color"
NoBaseColorDecl(text) ==
    \A i \in DOMAIN text :
        SelectorMatches(text[i], <<"QWidget">>) =>
            \A j \in DOMAIN text[i].body : ~IsColorDecl(text[i].body[j])

\* C15: foreground comes only from a "color:" declaration of the QWidget block;
\* when that block declares background-color but no "color:", foreground keeps
\* its default and never gets the background-color value
C15_ForegroundOnlyFromColor ==
    (FromQssDone /\ NoBaseColorDecl(code)) =>
        current_palette.foreground = DocumentedDefaults.foreground

\* C16: after every extraction secondary and disabled are the defaults #6C757D
\* and #999999, whatever the text holds
C16_SecondaryDisabledDefault ==
    FromQssDone =>
        /\ current_palette.secondary = <<"#", "6", "C", "7", "5", "7", "D">>
        /\ current_palette.disabled = <<"#", "9", "9", "9", "9", "9", "9">>

\* the palette was extracted from a stylesheet generated with another secondary
\* and another disabled colour, the latter written in the text
C16_Witness ==
    /\ qop = "extract"
    /\ generatedFrom # NoPalette
    /\ code = GenerateQss(generatedFrom, "default")
    /\ generatedFrom.secondary # DocumentedDefaults.secondary
    /\ generatedFrom.disabled # DocumentedDefaults.disabled
    /\ generatedFrom.disabled \in ValueTokens(code)
    /\ current_palette.secondary = DocumentedDefaults.secondary
    /\ current_palette.disabled = DocumentedDefaults.disabled

TemplateNames == {"default", "material", "flat", "classic"}

\* the selectors of the blocks of a text, in document order
SelectorOrder(text) == [i \in DOMAIN text |-> text[i].sel]

DeclaredValues(text, sel, prop) ==
    UNION {{text[i].body[j].val : j \in {k \in DOMAIN text[i].body : text[i].body[k].prop = prop}} :
            i \in {n \in DOMAIN text : text[n].sel = <<sel>>}}

\* the text in the editor is the stylesheet generated from generatedFrom
GeneratedShown == generatedFrom # NoPalette

\* C18: in generate(p) the QWidget block declares background-color p.background
\* and color p.foreground, QPushButton's background-color is p.primary,
\* QPushButton:hover's is p.hover and QPushButton:disabled's is p.disabled; for
\* the default palette that is #0078D4 for the button and #FFFFFF / #000000 for
\* the base block
C18_RolesFixed ==
    GeneratedShown =>
        /\ DeclaredValues(code, <<"QWidget">>, <<"background", "color">>) = {<<generatedFrom.background>>}
        /\ DeclaredValues(code, <<"QWidget">>, <<"color">>) = {<<generatedFrom.foreground>>}
        /\ DeclaredValues(code, <<"QPushButton">>, <<"background", "color">>) = {<<generatedFrom.primary>>}
        /\ DeclaredValues(code, <<"QPushButton", ":hover">>, <<"background", "color">>)
                = {<<generatedFrom.hover>>}
        /\ DeclaredValues(code, <<"QPushButton", ":disabled">>, <<"background", "color">>)
                = {<<generatedFrom.disabled>>}
        /\ generatedFrom = DocumentedDefaults =>
            /\ DeclaredValues(code, <<"QPushButton">>, <<"background", "color">>)
                    = {<< <<"#", "0", "0", "7", "8", "D", "4">> >>}
            /\ DeclaredValues(code, <<"QWidget">>, <<"background", "color">>)
                    = {<< <<"#", "F", "F", "F", "F", "F", "F">> >>}
            /\ DeclaredValues(code, <<"QWidget">>, <<"color">>)
                    = {<< <<"#", "0", "0", "0", "0", "0", "0">> >>}

\* a stylesheet was generated from a palette of eight different colours
C18_Witness ==
    /\ qop = "generate"
    /\ GeneratedShown
    /\ PairwiseDistinct(generatedFrom)
    /\ DeclaredValues(code, <<"QPushButton", ":hover">>, <<"background", "color">>)
            = {<<generatedFrom.hover>>}

(***************************************************************************)
(* Claims about the declarations of a widget style                         *)
(***************************************************************************)
\* s has no white space at either end and holds neither ';' nor ':'
CleanString(s) ==
    /\ s # <<>> => (s[1] \notin Whitespace /\ s[Len(s)] \notin Whitespace)
    /\ \A i \in DOMAIN s : s[i] \notin {";", ":"}

\* m is an ordered map (no key twice) of clean keys and values
CleanMap(m) ==
    /\ \A i, j \in DOMAIN m : i # j => m[i][1] # m[j][1]
    /\ \A i \in DOMAIN m : CleanString(m[i][1]) /\ CleanString(m[i][2])

\* the editor holds a property map
HoldsMap == wop \in {"parse", "update", "reparse"}

\* C19: for every ordered map m of trimmed keys and values without ';' and ':',
\* parsing the serialisation of m gives m back, same keys, values and order
C19_ParseSerializeRoundTrip ==
    (HoldsMap /\ CleanMap(properties)) =>
        /\ ParseCssProperties(Serialize(properties)) = properties
        /\ wop = "update" => ParseCssProperties(current_style) = properties

\* a clean map of at least two entries, one value with a blank inside, was
\* serialised into the style text and parses back to itself
C19_Witness ==
    /\ wop = "update"
    /\ CleanMap(properties)
    /\ Len(properties) >= 2
    /\ \E i \in DOMAIN properties : \E k \in DOMAIN properties[i][2] : properties[i][2][k] = " "
    /\ current_style = Serialize(properties)
    /\ ParseCssProperties(current_style) = properties

\* the segments of a text between its ';', each as <<start, end>> of the two
\* bounding positions
SegmentBounds(text) ==
    LET marks == {0, Len(text) + 1} \cup {i \in 1..Len(text) : text[i] = ";"}
    IN  {b \in marks \X marks : b[1] < b[2] /\ \A x \in marks : ~(b[1] < x /\ x < b[2])}

\* the declarations of a text: the segments that hold a ':', cut at their first
\* ':' and trimmed on both sides
Declarations(text) ==
    {[at |-> b[1],
      key |-> StrStrip(SubSeq(text, b[1] + 1,
                              Min({i \in (b[1] + 1)..(b[2] - 1) : text[i] = ":"}) - 1)),
      value |-> StrStrip(SubSeq(text, Min({i \in (b[1] + 1)..(b[2] - 1) : text[i] = ":"}) + 1,
                                b[2] - 1))] :
        b \in {c \in SegmentBounds(text) : \E i \in (c[1] + 1)..(c[2] - 1) : text[i] = ":"}}

\* m is the map parse must give for the text: its keys are the keys declared, in
\* the order in which they first appear, each with the value declared last
IsParseOf(m, text) ==
    LET decls == Declarations(text)
        first(k) == Min({d.at : d \in {e \in decls : e.key = k}})
        last(k) == Max({d.at : d \in {e \in decls : e.key = k}})
    IN  /\ {m[i][1] : i \in DOMAIN m} = {d.key : d \in decls}
        /\ \A i, j \in DOMAIN m : i < j => first(m[i][1]) < first(m[j][1])
        /\ \A i \in DOMAIN m : \E d \in decls : d.at = last(m[i][1]) /\ d.value = m[i][2]

ExampleStyle == <<"b", "a", "c", "k", "g", "r", "o", "u", "n", "d", "-", "c", "o", "l", "o", "r", ":", " ", "#", "2", "8", "2", "8", "2", "8", ";", " ", "c", "o", "l", "o", "r", ":", " ", "#", "E", "B", "D", "B", "B", "2", ";">>

\* C20: parse splits on ';', drops empty segments and segments without ':', cuts
\* each other segment at its first ':' and trims both sides; input order is kept,
\* the last value of a repeated key wins, the empty text gives the empty map, and
\* "background-color: #282828; color: #EBDBB2;" gives exactly these two entries
C20_ParseRule ==
    wop = "parse" =>
        /\ IsParseOf(properties, current_style)
        /\ current_style = <<>> => properties = <<>>
        /\ current_style = ExampleStyle =>
                properties = << <<<<"b", "a", "c", "k", "g", "r", "o", "u", "n", "d", "-", "c", "o", "l", "o", "r">>, <<"#", "2", "8", "2", "8", "2", "8">>>>, <<<<"c", "o", "l", "o", "r">>, <<"#", "E", "B", "D", "B", "B", "2">>>> >>

\* a text with a repeated key and another key between the two was parsed: the
\* repeated key stays first and has its last value
C20_Witness ==
    /\ wop = "parse"
    /\ \E d, e, f \in Declarations(current_style) :
        /\ d.at < e.at /\ e.at < f.at
        /\ d.key = <<"a">> /\ d.value = <<"1">>
        /\ e.key = <<"b">>
        /\ f.key = <<"a">> /\ f.value = <<"3">>
    /\ properties = << <<<<"a">>, <<"3">>>>, <<<<"b">>, <<"2">>>> >>
    /\ IsParseOf(properties, current_style)


(***************************************************************************)
(* C21: the colour token of a property value                               *)
(***************************************************************************)
\* the substring of s from i that is '#' and n hex digits, in either case
IsTokenAt(s, i, n) ==
    /\ i + n <= Len(s)
    /\ s[i] = "#"
    /\ \A k \in 1..n : s[i + k] \in HexAnyChars

\* the first hex colour token of s, with its two alpha digits when it has them
FirstToken(s) ==
    LET i == Min({j \in 1..Len(s) : IsTokenAt(s, j, 6)})
    IN  IF IsTokenAt(s, i, 8) THEN SubSeq(s, i, i + 8) ELSE SubSeq(s, i, i + 6)

\* the colours of the names of the named-colour table that occur in s
OccurringNameColours(s) ==
    {NamedValues[i] : i \in {j \in DOMAIN ColorNames : Contains(s, ColorNames[j])}}

ExtractDone == op = "extract_color_from_value"

AllFieldsValid(theme) == \A i \in DOMAIN TerminalFields : IsHex6AnyCase(theme[TerminalFields[i]])

\* the first field, in declaration order, that is not '#' and six hex digits
FirstOffending(theme) ==
    TerminalFields[Min({i \in DOMAIN TerminalFields : ~IsHex6AnyCase(theme[TerminalFields[i]])})]

\* C22: validate() on a TerminalTheme returns pass exactly when all 20 colour
\* fields are '#' plus six hex digits; otherwise it returns fail naming the
\* first offending field in declaration order together with its value; the
\* record is not modified (it is still in the dict as it was validated).
C22_ValidateContract ==
    validation.called =>
        /\ validation.result = <<TRUE>> <=> AllFieldsValid(validation.theme)
        /\ ~AllFieldsValid(validation.theme) =>
                validation.result = <<FALSE, FirstOffending(validation.theme),
                                      validation.theme[FirstOffending(validation.theme)]>>
        /\ \E n \in DOMAIN themes : themes[n] = validation.theme

\* C23: after any sequence of load, colour edit, new, duplicate, rename and
\* save, every colour field of every theme of the name -> theme dict is a valid
\* six-hex-digit colour.
C23_FieldsAlwaysValid ==
    \A n \in DOMAIN themes : AllFieldsValid(themes[n])

\* C30: has_unsaved_changes() is true in every state in which the themes in
\* memory differ from what was last loaded from or written to themes.json
\* (the default theme _load_themes makes for an empty load counts as loaded).
C30_FlagCoversChanges ==
    themes # persisted => unsaved_changes

\* the operations that add, change or remove a selector of the current theme
EditOps == {"style_changed", "add_widget", "remove_widget"}

\* C24: duplicating a widget theme makes an independent copy of its selector
\* -> style map: the duplicate starts with the styles of the original, and
\* from then on adding, changing or removing a selector in the original or
\* in the duplicate leaves the styles of the other one unchanged.
C24_DuplicateIndependent ==
    [][/\ qt_op' = "duplicate_theme" =>
            /\ StylesOf(qt_themes', styles_of', qt_current_theme_name')
                    = StylesOf(qt_themes, styles_of, qt_current_theme_name)
            /\ StylesOf(qt_themes', styles_of', qt_current_theme_name)
                    = StylesOf(qt_themes, styles_of, qt_current_theme_name)
       /\ qt_op' \in EditOps =>
            \A c \in DOMAIN duplicate_of :
                LET o == duplicate_of[c]
                IN  /\ qt_current_theme_name = c =>
                            StylesOf(qt_themes', styles_of', o)
                                = StylesOf(qt_themes, styles_of, o)
                    /\ qt_current_theme_name = o =>
                            StylesOf(qt_themes', styles_of', c)
                                = StylesOf(qt_themes, styles_of, c)]_vars

\* a selector was added, changed or removed in a duplicate or in its original,
\* and the two now differ
C24_Witness ==
    /\ qt_op \in EditOps
    /\ \E c \in DOMAIN duplicate_of :
            /\ qt_current_theme_name \in {c, duplicate_of[c]}
            /\ StylesOf(qt_themes, styles_of, c)
                    # StylesOf(qt_themes, styles_of, duplicate_of[c])

\* C28: Save writes the file loaded last or chosen last in a save dialog and
\* never the default qt_themes.json on its own: every write of Save and Save
\* As goes to that file; with such a file Save writes it without asking, and
\* with none (at the start, after New File) Save asks for a location; Load
\* from File and New File set and clear the tracked path; a cancelled dialog
\* and a load that yields no themes leave the tracked path and the themes
\* unchanged and write nothing.
C28_SaveGoesToTrackedFile ==
    [][/\ wrote' # NoPath => wrote' = tracked'
       /\ (qt_op' \in {"save", "save_failed"} /\ tracked # NoPath) =>
            wrote' = tracked /\ ~dialog_shown'
       /\ (qt_op' \in {"save", "save_failed", "save_cancelled"} /\ tracked = NoPath) =>
            dialog_shown'
       /\ qt_op' \in {"save", "save_as"} =>
            disk'[wrote'] = JsonFile(ThemesToDict(qt_themes, styles_of))
       /\ qt_op' = "new_file" => current_file_path' = NoPath /\ tracked' = NoPath
       /\ qt_op' = "load" => current_file_path' \in Paths /\ tracked' = current_file_path'
       /\ qt_op' \in {"save_cancelled", "save_as_cancelled", "load_cancelled",
                       "load_empty"} =>
            /\ UNCHANGED <<current_file_path, tracked, disk>>
            /\ ThemesToDict(qt_themes', styles_of') = ThemesToDict(qt_themes, styles_of)
            /\ wrote' = NoPath]_vars

\* the themes loaded from F, with a theme added since, were written to F by a
\* Save that showed no dialog
C28_Witness ==
    /\ qt_op = "save"
    /\ ~dialog_shown
    /\ wrote = "F"
    /\ tracked = "F"
    /\ DOMAIN qt_themes = {"N", "T"}
    /\ disk["F"] = JsonFile(ThemesToDict(qt_themes, styles_of))
    /\ disk[DefaultPath] = NoFile

\* the blocks of exactly this selector declare exactly this value for prop
Declares(text, sel, prop, val) == DeclaredValues(text, sel, prop) = {<<val>>}

C26_FailedSaveRestores ==
    (bop = "save_failed" /\ before.exists) =>
        /\ files[target].exists
        /\ files[target].content = before.content

\* C27: after any sequence of saves the backup directory holds at most 5
\* backups of one file name, and the backups kept are the most recently
\* created ones: every backup that was deleted was created before every
\* backup that is kept.
C27_NewestBackupsKept ==
    LET kept == {backups[t].created : t \in DOMAIN backups}
    IN  /\ Cardinality(DOMAIN backups) <= KeepCount
        /\ \A k \in kept : \A d \in made \ kept : d < k

(***************************************************************************)
(* C29: the frame of an edit in the property editor                        *)
(***************************************************************************)
\* the declarations of a text whose key is not prop, in the order of the text
OtherDeclarations(text, prop) ==
    LET ds == {d \in Declarations(text) : d.key # prop}
        order == CHOOSE f \in [1..Cardinality(ds) -> ds] :
                    \A i, j \in 1..Cardinality(ds) : i < j => f[i].at < f[j].at
    IN  [i \in 1..Cardinality(ds) |-> <<order[i].key, order[i].value>>]

\* the declaration of the text that comes last
LastDeclaration(text) ==
    CHOOSE d \in Declarations(text) : \A e \in Declarations(text) : e.at <= d.at

\* the value with its first hex colour token replaced by the new colour; a value
\* without such a token is a plain colour and becomes it
WithColorToken(value, new_color) ==
    IF \E j \in 1..Len(value) : IsTokenAt(value, j, 6)
    THEN LET i == Min({j \in 1..Len(value) : IsTokenAt(value, j, 6)})
         IN  SubSeq(value, 1, i - 1) \o new_color
                \o SubSeq(value, i + Len(FirstToken(value)), Len(value))
    ELSE new_color

\* C29: an edit of one property in the property editor changes only that
\* property: every other declaration of the block keeps its key, its value and
\* its place among the others, a property that was not declared is appended
\* last, and a colour picked for a compound value such as "5px solid #D5A200"
\* replaces only the colour token of that value.
C29_EditChangesOneProperty ==
    [][wop' = "update" =>
        /\ OtherDeclarations(current_style', edit'.prop)
                = OtherDeclarations(current_style, edit'.prop)
        /\ (\A d \in Declarations(current_style) : d.key # edit'.prop) =>
                LastDeclaration(current_style').key = edit'.prop
        /\ edit'.kind = "color" =>
                \A d \in Declarations(current_style') :
                    d.key = edit'.prop =>
                        d.value = WithColorToken(DictGet(ParseCssProperties(current_style),
                                                         edit'.prop),
                                                 edit'.value)]_vars

=============================================================================
